---- MODULE Spec2Model ----
(***************************************************************************)
(* A model of the numerical core of ADMDynAnlz: the per-file workers and   *)
(* top-level drivers of main_functions/COM_calc.py, unwrap_coords.py,      *)
(* alpha2_MSD.py and axz.py.                                               *)
(*                                                                         *)
(* Numbers.  Every coordinate of an input file is an integer that counts   *)
(* thousandths (CoordUnit per 1.0).  Squared displacements then count      *)
(* 1e-6 and their squares and products count 1e-12, so epsilon = 1e-12 is  *)
(* one such unit.  A float is a fraction [n, d]: d > 0 is a finite value,  *)
(* d = 0 is what numpy gives for x/0 (inf or nan).  Text written with      *)
(* %.6f or %f is the integer count of 1e-6 it denotes.                     *)
(***************************************************************************)
EXTENDS Integers, Sequences, FiniteSets, TLC

\* ------------------------------------------------------------------ bounds
\* Largest num_dcd (number of trajectory files of one call).
MaxFiles == 3
\* Longest input file, in rows (frames).
MaxFrames == 3
\* Longest path pattern, in pieces.
MaxPieces == 2

\* ------------------------------------------------- numbers and fractions
CoordUnit == 1000
Micro == 1000000

Abs(x) == IF x < 0 THEN -x ELSE x

RECURSIVE GCD(_, _)
GCD(a, b) == IF b = 0 THEN a ELSE GCD(b, a % b)

\* The fraction n/d in lowest terms, d > 0.
Rat(n, d) ==
    LET g == GCD(Abs(n), d) IN [n |-> n \div g, d |-> d \div g]

RatInt(n) == [n |-> n, d |-> 1]
RatAdd(a, b) == Rat(a.n * b.d + b.n * a.d, a.d * b.d)
RatSub(a, b) == Rat(a.n * b.d - b.n * a.d, a.d * b.d)
RatMul(a, b) == Rat(a.n * b.n, a.d * b.d)
RatLess(a, b) == a.n * b.d < b.n * a.d
RatEq(a, b) == a.n * b.d = b.n * a.d
RatAbs(a) == [n |-> Abs(a.n), d |-> a.d]

\* numpy's true division of finite floats: x/0 is inf or nan (d = 0).
FloatDiv(a, b) ==
    IF b.n = 0
    THEN [n |-> (IF a.n > 0 THEN 1 ELSE IF a.n < 0 THEN -1 ELSE 0), d |-> 0]
    ELSE IF b.n > 0 THEN Rat(a.n * b.d, a.d * b.n)
    ELSE Rat(-(a.n * b.d), a.d * (-b.n))

\* np.isfinite
isfinite(x) == x.d # 0

\* x - 1 on floats: inf - 1 = inf, nan - 1 = nan.
FloatMinusOne(x) == IF isfinite(x) THEN RatSub(x, RatInt(1)) ELSE x

\* ------------------------------------------------------------ sequences
Range(s) == {s[i] : i \in 1..Len(s)}

RECURSIVE SumSeq(_)
SumSeq(s) == IF s = <<>> THEN 0 ELSE Head(s) + SumSeq(Tail(s))

RECURSIVE Product(_)
Product(s) == IF s = <<>> THEN 1 ELSE Head(s) * Product(Tail(s))

\* ---------------------------------------------------------------- files
\* An input file is absent (NoFile) or a text file of `rows` lines with
\* `cols` numbers each.  Its numbers are given line by line (TextFile) or
\* follow a sample trajectory (Trajectory): column j (particle j \div 3,
\* axis j % 3) starts at j + 1 + p and moves p per frame along x, q per
\* frame along z, and q per frame along y for odd particles.
NoFile == [rows |-> 0, cols |-> 0, p |-> 0, q |-> 0, text |-> <<>>]

Trajectory(rows, cols, p, q) ==
    [rows |-> rows, cols |-> cols, p |-> p, q |-> q, text |-> <<>>]

TextFile(text) ==
    [rows |-> Len(text), cols |-> Len(text[1]), p |-> 0, q |-> 0, text |-> text]

\* The number in line t, column j of the file (both 0-based).
Cell(f, t, j) ==
    LET ax == j % 3
        m  == j \div 3
    IN  IF f.text # <<>> THEN f.text[t + 1][j + 1]
        ELSE (j + 1 + f.p)
             + (IF ax = 0 THEN f.p * t
                ELSE IF ax = 1 THEN f.q * (m % 2) * t
                ELSE f.q * t)

\* ------------------------------------------------------------- ndarrays
\* An ndarray is its shape and its elements in row-major order.
Array(shape, flat) == [shape |-> shape, flat |-> flat]

\* No array: what a variable holds before its assignment.
NoArray == Array(<<>>, <<>>)

size(a) == Len(a.flat)
ndim(a) == Len(a.shape)
len(a) == a.shape[1]

\* a[i, j] of a 2-D array and a[i, j, k] of a 3-D array, 0-based.
At2(a, i, j) == a.flat[i * a.shape[2] + j + 1]
At3(a, i, j, k) == a.flat[(i * a.shape[2] + j) * a.shape[3] + k + 1]

\* np.squeeze: the dimensions of length 1 are dropped.
squeeze(shape) == SelectSeq(shape, LAMBDA n : n # 1)

\* A variant that ignores usecols and loads every column of the file.
np_loadtxt_allColumns(f, ncols) ==
    IF f = NoFile THEN [ok |-> FALSE, arr |-> NoArray]
    ELSE [ok  |-> TRUE,
          arr |-> Array(squeeze(<<f.rows, f.cols>>),
                        [x \in 1..(f.rows * f.cols) |->
                            Cell(f, (x - 1) \div f.cols, (x - 1) % f.cols)])]

\* np.loadtxt(path, usecols=range(ncols)) (ncols = 0: no usecols).  The file
\* must exist and every line must reach the last column asked for; the
\* result is squeezed, so a one-line file comes back one-dimensional.
np_loadtxt(f, ncols) ==
    IF f = NoFile THEN [ok |-> FALSE, arr |-> NoArray]
    ELSE IF ncols > f.cols THEN [ok |-> FALSE, arr |-> NoArray]
    ELSE LET c == IF ncols = 0 THEN f.cols ELSE ncols
         IN  [ok  |-> TRUE,
              arr |-> Array(squeeze(<<f.rows, c>>),
                            [x \in 1..(f.rows * c) |->
                                Cell(f, (x - 1) \div c, (x - 1) % c)])]

\* ndarray.reshape(shape) keeps the elements and raises unless the sizes agree.
CanReshape(a, shape) == Product(shape) = size(a)
reshape(a, shape) == Array(shape, a.flat)

\* dst += src: src must broadcast to dst's shape (trailing dimensions equal
\* or 1 in src), else numpy raises and dst is unchanged.
Broadcastable(src, dst) ==
    /\ Len(src) <= Len(dst)
    /\ \A i \in 1..Len(src) :
          LET s == src[Len(src) + 1 - i]
              d == dst[Len(dst) + 1 - i]
          IN  s = d \/ s = 1

\* Index into a 2-D src of the element broadcast onto dst[i, j].
BroadcastAt2(src, i, j) ==
    At2(src, IF src.shape[1] = 1 THEN 0 ELSE i, IF src.shape[2] = 1 THEN 0 ELSE j)

iadd(dst, src) ==
    Array(dst.shape,
          [x \in 1..size(dst) |->
              dst.flat[x] + BroadcastAt2(src, (x - 1) \div dst.shape[2],
                                              (x - 1) % dst.shape[2])])

zeros_like(a) == Array(a.shape, [x \in 1..size(a) |-> 0])

\* Python's fixed-point formatting with six decimals of the float n/d that
\* counts 1/unit: the count of 1e-6 nearest to it (ties to even).
RECURSIVE Digits6(_, _, _)
Digits6(r, d, k) ==
    IF k = 0 THEN <<0, r>>
    ELSE LET rest == Digits6((r * 10) % d, d, k - 1)
         IN  <<((r * 10) \div d) * (10 ^ (k - 1)) + rest[1], rest[2]>>

fmt_6f(x, unit) ==
    LET D   == x.d * unit
        a   == Abs(x.n)
        fr  == Digits6(a % D, D, 6)
        w   == (a \div D) * Micro + fr[1]
        up  == 2 * fr[2] > D \/ (2 * fr[2] = D /\ w % 2 = 1)
        mag == w + (IF up THEN 1 ELSE 0)
    IN  IF x.n < 0 THEN -mag ELSE mag

\* np.savetxt(path, a, fmt): the text of a, element by element.
savetxt(a, unit) ==
    Array(a.shape, [x \in 1..size(a) |-> fmt_6f(a.flat[x], unit)])

\* ----------------------------------------- ensemble displacement statistics
\* epsilon = 1e-12, counted in units of 1e-12 (see the header).
epsilon == 1
\* The entry 'general_error' that a raising call appends to results['failed'].
general_error == -1

\* data - data[0, :, :] of a (frames, molecules, 3) array.
SubtractFirstFrame(d) ==
    Array(d.shape,
          [x \in 1..size(d) |->
              d.flat[x] - At3(d, 0, ((x - 1) \div 3) % d.shape[2], (x - 1) % 3)])

\* A variant that sums over x and y only.
einsum_sq_xy(d) ==
    Array(<<d.shape[1], d.shape[2]>>,
          [x \in 1..(d.shape[1] * d.shape[2]) |->
              LET i == (x - 1) \div d.shape[2]
                  j == (x - 1) % d.shape[2]
              IN  At3(d, i, j, 0) * At3(d, i, j, 0)
                  + At3(d, i, j, 1) * At3(d, i, j, 1)])

\* np.einsum('ijk,ijk->ij', d, d): the sum over the axes of the squares.
einsum_sq(d) ==
    Array(<<d.shape[1], d.shape[2]>>,
          [x \in 1..(d.shape[1] * d.shape[2]) |->
              LET i == (x - 1) \div d.shape[2]
                  j == (x - 1) % d.shape[2]
              IN  At3(d, i, j, 0) * At3(d, i, j, 0)
                  + At3(d, i, j, 1) * At3(d, i, j, 1)
                  + At3(d, i, j, 2) * At3(d, i, j, 2)])

\* d[:, :, ax] ** 2 of a (frames, molecules, 3) array.
AxisSquared(d, ax) ==
    Array(<<d.shape[1], d.shape[2]>>,
          [x \in 1..(d.shape[1] * d.shape[2]) |->
              LET v == At3(d, (x - 1) \div d.shape[2], (x - 1) % d.shape[2], ax)
              IN  v * v])

\* a * b, element by element, of two arrays of one shape.
Times(a, b) == Array(a.shape, [x \in 1..size(a) |-> a.flat[x] * b.flat[x]])

\* What one file adds to the accumulators: a2_MSD's <<data2, data4>>.
MSDQuantities(disp) ==
    LET data2 == einsum_sq(disp)
    IN  <<data2, Times(data2, data2)>>

\* alpha_xz's <<dx2, dy2, dz2, dx2_dz2, dx2_dy2, dy2_dz2>>.
AxzQuantities(disp) ==
    LET dx2 == AxisSquared(disp, 0)
        dy2 == AxisSquared(disp, 1)
        dz2 == AxisSquared(disp, 2)
    IN  <<dx2, dy2, dz2, Times(dx2, dz2), Times(dx2, dy2), Times(dy2, dz2)>>

\* The body of the per-file loop of a2_MSD and alpha_xz: the bucket the file
\* index ends in and the accumulators after it.
ProcessTrajectory(name, f, M, nF, accs) ==
    LET failed  == [bucket |-> "failed", acc |-> accs]
        skipped == [bucket |-> "skipped", acc |-> accs]
        ld      == np_loadtxt(f, M * 3)
    IN  IF f = NoFile THEN failed
        ELSE IF ~ld.ok THEN failed
        ELSE IF len(ld.arr) < nF THEN skipped
        ELSE IF ~CanReshape(ld.arr, <<len(ld.arr), M, 3>>) THEN failed
        ELSE LET data == reshape(ld.arr, <<len(ld.arr), M, 3>>)
                 disp == SubtractFirstFrame(data)
                 qs   == IF name = "a2_MSD" THEN MSDQuantities(disp)
                         ELSE AxzQuantities(disp)
                 acc0 == IF accs = <<>>
                         THEN [i \in 1..Len(qs) |-> zeros_like(qs[i])]
                         ELSE accs
             IN  IF ~Broadcastable(qs[1].shape, acc0[1].shape) THEN failed
                 ELSE [bucket |-> "success",
                       acc    |-> [i \in 1..Len(qs) |-> iadd(acc0[i], qs[i])]]

\* accumulator / successful_files, then np.mean(..., axis=1) when the
\* molecule count exceeds `over`.
EnsembleAverage(a, S, M, over) ==
    LET avg == Array(a.shape, [x \in 1..size(a) |-> Rat(a.flat[x], S)])
    IN  IF M > over
        THEN Array(<<a.shape[1]>>,
                   [i \in 1..a.shape[1] |->
                       Rat(SumSeq([j \in 1..M |-> At2(a, i - 1, j - 1)]), S * M)])
        ELSE avg

\* A variant without the small_msd_mask: only non-finite values are zeroed.
Alpha2Of_noSmallMask(msd, msd4) ==
    LET raw == FloatMinusOne(FloatDiv(RatMul(RatInt(3), msd4),
                                      RatMul(RatInt(5), RatMul(msd, msd))))
    IN  IF ~isfinite(raw) THEN RatInt(0) ELSE raw

\* A variant that forgets the `- 1`.
Alpha2Of_noMinusOne(msd, msd4) ==
    LET msd_squared == RatMul(msd, msd)
        raw == FloatDiv(RatMul(RatInt(3), msd4), RatMul(RatInt(5), msd_squared))
    IN  IF RatLess(msd_squared, RatInt(epsilon)) THEN RatInt(0)
        ELSE IF ~isfinite(raw) THEN RatInt(0)
        ELSE raw

\* alpha2 = 3 * msd4_avg / (5 * msd_squared) - 1, then the two masks.
Alpha2Of(msd, msd4) ==
    LET msd_squared == RatMul(msd, msd)
        raw == FloatMinusOne(FloatDiv(RatMul(RatInt(3), msd4),
                                      RatMul(RatInt(5), msd_squared)))
    IN  IF RatLess(msd_squared, RatInt(epsilon)) THEN RatInt(0)
        ELSE IF ~isfinite(raw) THEN RatInt(0)
        ELSE raw

\* np.divide(num, den, out=zeros, where=|den| > epsilon) - 1, then the masks.
AlphaPairOf(num, a, b) ==
    LET den == RatMul(a, b)
        quo == IF RatLess(RatInt(epsilon), RatAbs(den)) THEN FloatDiv(num, den)
               ELSE RatInt(0)
        raw == FloatMinusOne(quo)
    IN  IF RatLess(RatAbs(den), RatInt(epsilon)) THEN RatInt(0)
        ELSE IF ~isfinite(raw) THEN RatInt(0)
        ELSE raw

\* The arrays a2_MSD computes after its loop.
MSDStatistics(accs, S, M) ==
    LET msd_avg  == EnsembleAverage(accs[1], S, M, 2)
        msd4_avg == EnsembleAverage(accs[2], S, M, 2)
    IN  [msd_avg  |-> msd_avg,
         msd4_avg |-> msd4_avg,
         alpha2   |-> Array(msd_avg.shape,
                            [x \in 1..size(msd_avg) |->
                                Alpha2Of(msd_avg.flat[x], msd4_avg.flat[x])])]

\* The arrays alpha_xz computes after its loop.
AxzStatistics(accs, S, M) ==
    LET x2   == EnsembleAverage(accs[1], S, M, 1)
        y2   == EnsembleAverage(accs[2], S, M, 1)
        z2   == EnsembleAverage(accs[3], S, M, 1)
        x2z2 == EnsembleAverage(accs[4], S, M, 1)
        x2y2 == EnsembleAverage(accs[5], S, M, 1)
        y2z2 == EnsembleAverage(accs[6], S, M, 1)
        axz  == Array(x2.shape, [x \in 1..size(x2) |->
                    AlphaPairOf(x2z2.flat[x], x2.flat[x], z2.flat[x])])
        axy  == Array(x2.shape, [x \in 1..size(x2) |->
                    AlphaPairOf(x2y2.flat[x], x2.flat[x], y2.flat[x])])
        ayz  == Array(x2.shape, [x \in 1..size(x2) |->
                    AlphaPairOf(y2z2.flat[x], y2.flat[x], z2.flat[x])])
    IN  [x2_avg |-> x2, y2_avg |-> y2, z2_avg |-> z2,
         x2z2_avg |-> x2z2, x2y2_avg |-> x2y2, y2z2_avg |-> y2z2,
         alpha_xz |-> axz, alpha_xy |-> axy, alpha_yz |-> ayz,
         anisotropy |-> Array(x2.shape, [x \in 1..size(x2) |->
             RatMul(RatAdd(RatAdd(axy.flat[x], ayz.flat[x]), axz.flat[x]),
                    Rat(1, 3))])]

\* ------------------------------------------------------ periodic unwrapping
\* Python's None as an argument value.
PyNone == -1

\* interval = slice(start, stop) with non-negative or None bounds: the rows
\* start..stop-1 that exist.
SliceStart(interval, n) ==
    IF interval.start = PyNone THEN 0
    ELSE IF interval.start > n THEN n ELSE interval.start

SliceStop(interval, n) ==
    IF interval.stop = PyNone THEN n
    ELSE IF interval.stop > n THEN n ELSE interval.stop

\* coords[interval] of a 2-D array.
SliceRows(a, interval) ==
    LET lo == SliceStart(interval, a.shape[1])
        hi == SliceStop(interval, a.shape[1])
        n  == IF hi > lo THEN hi - lo ELSE 0
        c  == a.shape[2]
    IN  Array(<<n, c>>, [x \in 1..(n * c) |-> a.flat[lo * c + x]])

\* A variant with the threshold at a quarter of the box.
HalfBox_quarter(box_size) == [dim \in 1..3 |-> Rat(box_size[dim], 4)]

\* thold = box_size / 2
HalfBox(box_size) == [dim \in 1..3 |-> Rat(box_size[dim], 2)]

\* A variant without the mask_neg branch: backward jumps stay uncorrected.
MinimumImage_noAdd(d, box, th) ==
    d - (IF RatLess(th, RatInt(d)) THEN box ELSE 0)

\* A variant with inclusive comparisons: a step of exactly half the box is
\* corrected too.
MinimumImage_inclusive(d, box, th) ==
    LET mask_pos == ~RatLess(RatInt(d), th)
        mask_neg == ~RatLess([n |-> -th.n, d |-> th.d], RatInt(d))
    IN  d - (IF mask_pos THEN box ELSE 0) + (IF mask_neg THEN box ELSE 0)

\* The minimum image convention on one component of diff: both masks are
\* taken from the raw difference, then the box length is subtracted where
\* mask_pos holds and added where mask_neg holds.
MinimumImage(d, box, th) ==
    LET mask_pos == RatLess(th, RatInt(d))
        mask_neg == RatLess(RatInt(d), [n |-> -th.n, d |-> th.d])
    IN  d - (IF mask_pos THEN box ELSE 0) + (IF mask_neg THEN box ELSE 0)

\* A variant that adds the corrected step to the previous wrapped frame:
\* the corrections of earlier frames are lost.
UnwrapFrame_fromWrapped(coords, unwrapped, frame, box_size, thold) ==
    LET w == coords.shape[2] * 3
    IN  Array(unwrapped.shape,
              [x \in 1..size(unwrapped) |->
                  IF (x - 1) \div w # frame THEN unwrapped.flat[x]
                  ELSE LET dim  == ((x - 1) % 3) + 1
                           diff == coords.flat[x] - coords.flat[x - w]
                       IN  coords.flat[x - w]
                           + MinimumImage(diff, box_size[dim], thold[dim])])

\* One pass of the frame loop: unwrapped[frame] = unwrapped[frame-1] + diff.
UnwrapFrame(coords, unwrapped, frame, box_size, thold) ==
    LET w == coords.shape[2] * 3
    IN  Array(unwrapped.shape,
              [x \in 1..size(unwrapped) |->
                  IF (x - 1) \div w # frame THEN unwrapped.flat[x]
                  ELSE LET dim  == ((x - 1) % 3) + 1
                           diff == coords.flat[x] - coords.flat[x - w]
                       IN  unwrapped.flat[x - w]
                           + MinimumImage(diff, box_size[dim], thold[dim])])

\* unwrapped = np.zeros_like(coords); unwrapped[0] = coords[0]
UnwrapSeed(coords) ==
    LET w == coords.shape[2] * 3
    IN  Array(coords.shape,
              [x \in 1..size(coords) |-> IF x <= w THEN coords.flat[x] ELSE 0])

\* for frame in range(1, n_frames): ...
RECURSIVE UnwrapFrames(_, _, _, _, _)
UnwrapFrames(coords, unwrapped, frame, box_size, thold) ==
    IF frame >= coords.shape[1] THEN unwrapped
    ELSE UnwrapFrames(coords,
                      UnwrapFrame(coords, unwrapped, frame, box_size, thold),
                      frame + 1, box_size, thold)

\* A variant that keeps every stride-th frame of the interval.
UnwrapLoad_strided(f, num_atoms, interval) ==
    LET ld     == np_loadtxt(f, 0)
        bad(e) == [ok |-> FALSE, arr |-> NoArray, err |-> e]
        two    == IF ndim(ld.arr) = 1
                  THEN reshape(ld.arr, <<1, size(ld.arr)>>)
                  ELSE ld.arr
        sliced == SliceRows(two, interval)
        n      == (sliced.shape[1] + 1) \div 2
        c      == sliced.shape[2]
        coords == Array(<<n, c>>,
                        [x \in 1..(n * c) |->
                            sliced.flat[((x - 1) \div c) * 2 * c
                                        + ((x - 1) % c) + 1]])
    IN  IF ~ld.ok THEN bad("FileNotFoundError")
        ELSE IF coords.shape[2] # num_atoms * 3 THEN bad("ValueError")
        ELSE IF coords.shape[1] = 0 THEN bad("IndexError")
        ELSE [ok  |-> TRUE,
              arr |-> reshape(coords, <<coords.shape[1], num_atoms, 3>>),
              err |-> ""]

\* Loading, slicing and checking of one wrapped file: the (frames, atoms, 3)
\* array, or the exception that the worker raises (an absent file, a wrong
\* column count, no frame 0 to seed from).
UnwrapLoad(f, num_atoms, interval) ==
    LET ld     == np_loadtxt(f, 0)
        bad(e) == [ok |-> FALSE, arr |-> NoArray, err |-> e]
        two    == IF ndim(ld.arr) = 1
                  THEN reshape(ld.arr, <<1, size(ld.arr)>>)
                  ELSE ld.arr
        coords == SliceRows(two, interval)
    IN  IF ~ld.ok THEN bad("FileNotFoundError")
        ELSE IF coords.shape[2] # num_atoms * 3 THEN bad("ValueError")
        ELSE IF coords.shape[1] = 0 THEN bad("IndexError")
        ELSE [ok  |-> TRUE,
              arr |-> reshape(coords, <<coords.shape[1], num_atoms, 3>>),
              err |-> ""]

\* np.savetxt(out_path, unwrapped.reshape(n_frames, -1), fmt='%.6f')
UnwrapSave(unwrapped) ==
    LET flat == reshape(unwrapped,
                        <<unwrapped.shape[1], unwrapped.shape[2] * 3>>)
    IN  Array(flat.shape,
              [x \in 1..size(flat) |-> fmt_6f(RatInt(flat.flat[x]), CoordUnit)])

\* _unwrap_single_file: the text written to the output file, or a raise.
\* stride and chunk_size are accepted and not used.
unwrap_single_file(f, num_atoms, box_size, thold, interval, stride) ==
    LET ld == UnwrapLoad(f, num_atoms, interval)
    IN  IF ~ld.ok THEN [ok |-> FALSE, out |-> NoArray, err |-> ld.err]
        ELSE [ok  |-> TRUE,
              out |-> UnwrapSave(UnwrapFrames(ld.arr, UnwrapSeed(ld.arr), 1,
                                              box_size, thold)),
              err |-> ""]

\* ------------------------------------------- chunked unwrapping (legacy)
\* xyz_data[::stride] of a 2-D array: the rows 0, stride, 2*stride, ...
StrideRows(a, stride) ==
    LET n == (a.shape[1] + stride - 1) \div stride
        c == a.shape[2]
    IN  Array(<<n, c>>,
              [x \in 1..(n * c) |->
                  a.flat[((x - 1) \div c) * stride * c + ((x - 1) % c) + 1]])

\* xyz_data[:, :ncols] of a 2-D array: the first ncols columns that exist.
FirstColumns(a, ncols) ==
    LET c == IF ncols < a.shape[2] THEN ncols ELSE a.shape[2]
        n == a.shape[1]
    IN  Array(<<n, c>>,
              [x \in 1..(n * c) |->
                  a.flat[((x - 1) \div c) * a.shape[2] + ((x - 1) % c) + 1]])

\* The chunked worker up to its chunk loop: np.loadtxt, the interval, the
\* stride and the first 3*num_atoms columns, the reshape and frame 0.  A
\* one-line file comes back one-dimensional and cannot be indexed by row
\* and column; every exception leaves as RuntimeError.
ChunkedLoad(f, num_atoms, interval, stride) ==
    LET ld       == np_loadtxt(f, 0)
        bad      == [ok |-> FALSE, arr |-> NoArray, err |-> "RuntimeError"]
        xyz_data == FirstColumns(StrideRows(SliceRows(ld.arr, interval), stride),
                                 num_atoms * 3)
        n_frames == xyz_data.shape[1]
    IN  IF ~ld.ok THEN bad
        ELSE IF ndim(ld.arr) = 1 THEN bad
        ELSE IF ~CanReshape(xyz_data, <<n_frames, num_atoms, 3>>) THEN bad
        ELSE IF n_frames = 0 THEN bad
        ELSE [ok  |-> TRUE,
              arr |-> reshape(xyz_data, <<n_frames, num_atoms, 3>>),
              err |-> ""]

\* The periodic correction of the chunked worker on one component: the box
\* length is subtracted where diffs > thold, then added where the result is
\* below -thold.
PeriodicCorrection(d, box, th) ==
    LET d1 == IF RatLess(th, RatInt(d)) THEN d - box ELSE d
    IN  IF RatLess(RatInt(d1), [n |-> -th.n, d |-> th.d]) THEN d1 + box ELSE d1

\* np.cumsum(diffs, axis=0) of the chunk that starts at frame lo, at frame
\* fr and flat column c: diffs[0] is taken against frame lo - 1 of xyz.
RECURSIVE cumsum(_, _, _, _, _, _)
cumsum(xyz, lo, fr, c, box_size, thold) ==
    IF fr < lo THEN 0
    ELSE LET w == xyz.shape[2] * 3
         IN  cumsum(xyz, lo, fr - 1, c, box_size, thold)
             + PeriodicCorrection(xyz.flat[fr * w + c + 1]
                                      - xyz.flat[(fr - 1) * w + c + 1],
                                  box_size[(c % 3) + 1], thold[(c % 3) + 1])

\* A variant whose differences are taken inside the chunk only: the step
\* into the first frame of the chunk is lost.
UnwrapChunk_withinChunk(xyz, unwrapped_xyz, chunk_start, chunk_size, box_size, thold) ==
    LET w         == xyz.shape[2] * 3
        n_frames  == xyz.shape[1]
        chunk_end == IF chunk_start + chunk_size < n_frames
                     THEN chunk_start + chunk_size ELSE n_frames
    IN  Array(unwrapped_xyz.shape,
              [x \in 1..size(unwrapped_xyz) |->
                  LET fr == (x - 1) \div w
                      c  == (x - 1) % w
                  IN  IF fr < chunk_start \/ fr >= chunk_end
                      THEN unwrapped_xyz.flat[x]
                      ELSE unwrapped_xyz.flat[(chunk_start - 1) * w + c + 1]
                           + cumsum(xyz, chunk_start + 1, fr, c, box_size,
                                    thold)])

\* One pass of the chunk loop: the frames chunk_start..chunk_end-1 become
\* unwrapped_xyz[chunk_start-1] + np.cumsum(diffs, axis=0).
UnwrapChunk(xyz, unwrapped_xyz, chunk_start, chunk_size, box_size, thold) ==
    LET w         == xyz.shape[2] * 3
        n_frames  == xyz.shape[1]
        chunk_end == IF chunk_start + chunk_size < n_frames
                     THEN chunk_start + chunk_size ELSE n_frames
    IN  Array(unwrapped_xyz.shape,
              [x \in 1..size(unwrapped_xyz) |->
                  LET fr == (x - 1) \div w
                      c  == (x - 1) % w
                  IN  IF fr < chunk_start \/ fr >= chunk_end
                      THEN unwrapped_xyz.flat[x]
                      ELSE unwrapped_xyz.flat[(chunk_start - 1) * w + c + 1]
                           + cumsum(xyz, chunk_start, fr, c, box_size, thold)])

\* ----------------------------------------------------------- centre of mass
\* A variant that leaves the masses out: the plain mean of the atoms.
compute_com_unweighted(data, masses, total_mass, prtcl_atoms) ==
    Array(<<data.shape[1], data.shape[2], 3>>,
          [x \in 1..(data.shape[1] * data.shape[2] * 3) |->
              Rat(SumSeq([a \in 1..prtcl_atoms |->
                      At3(data, (x - 1) \div (data.shape[2] * 3),
                          ((x - 1) \div 3) % data.shape[2],
                          (a - 1) * 3 + ((x - 1) % 3))]),
                  prtcl_atoms)])

\* np.sum(coords * masses_broadcast, axis=2) / total_mass of a
\* (frames, molecules, atoms*3) array: a (frames, molecules, 3) array.
compute_com_vectorized(data, masses, total_mass, prtcl_atoms) ==
    LET n_frames    == data.shape[1]
        n_molecules == data.shape[2]
    IN  Array(<<n_frames, n_molecules, 3>>,
              [x \in 1..(n_frames * n_molecules * 3) |->
                  LET i == (x - 1) \div (n_molecules * 3)
                      j == ((x - 1) \div 3) % n_molecules
                      k == (x - 1) % 3
                  IN  FloatDiv(
                        RatInt(SumSeq([a \in 1..prtcl_atoms |->
                            At3(data, i, j, (a - 1) * 3 + k) * masses[a]])),
                        RatInt(total_mass))])

\* The loading and checking of one coordinate file: the array
\* (frames, molecules, atoms*3), or the failure that the worker raises.
\* data.shape[1] does not exist for a one-dimensional array.
ComLoad(f, prtcl_num, prtcl_atoms) ==
    LET ld  == np_loadtxt(f, 0)
        bad == [ok |-> FALSE, arr |-> NoArray]
    IN  IF ~ld.ok THEN bad
        ELSE IF ndim(ld.arr) < 2 THEN bad
        ELSE IF ld.arr.shape[2] # prtcl_num * prtcl_atoms * 3 THEN bad
        ELSE [ok  |-> TRUE,
              arr |-> reshape(ld.arr, <<ld.arr.shape[1], prtcl_num,
                                        prtcl_atoms * 3>>)]

\* np.savetxt(out_path, centers_of_mass.reshape(n_frames, -1), fmt='%.6f')
ComSave(com) ==
    savetxt(reshape(com, <<com.shape[1], com.shape[2] * 3>>), CoordUnit)

\* _compute_com_single_file: the text written to the output file, or the
\* RuntimeError into which the worker turns every exception.
compute_com_single_file(f, prtcl_num, prtcl_atoms, masses, total_mass) ==
    LET ld == ComLoad(f, prtcl_num, prtcl_atoms)
    IN  IF ~ld.ok THEN [ok |-> FALSE, out |-> NoArray, err |-> "RuntimeError"]
        ELSE [ok  |-> TRUE,
              out |-> ComSave(compute_com_vectorized(ld.arr, masses, total_mass,
                                                     prtcl_atoms)),
              err |-> ""]

\* _compute_com_single_file_optimized with chunk_size=None: the chunk is the
\* whole file, and the weighted sum is taken one axis at a time.
compute_com_single_file_optimized(f, prtcl_num, prtcl_atoms, masses, total) ==
    LET ld == ComLoad(f, prtcl_num, prtcl_atoms)
    IN  IF ~ld.ok THEN [ok |-> FALSE, out |-> NoArray, err |-> "RuntimeError"]
        ELSE [ok  |-> TRUE,
              out |-> ComSave(compute_com_vectorized(ld.arr, masses, total,
                                                     prtcl_atoms)),
              err |-> ""]

\* ------------------------------------------------------------ path patterns
\* A path, a pattern and the common parameter are each the sequence of
\* their characters.
DigitChars == <<"0", "1", "2", "3", "4", "5", "6", "7", "8", "9">>

\* \d of the regular expressions, on the ASCII digits.
IsDigit(c) == \E d \in 1..Len(DigitChars) : DigitChars[d] = c

DigitValue(c) == (CHOOSE d \in 1..Len(DigitChars) : DigitChars[d] = c) - 1

\* str(n) of a non-negative int.
RECURSIVE str_nat(_)
str_nat(n) ==
    IF n < Len(DigitChars) THEN <<DigitChars[n + 1]>>
    ELSE str_nat(n \div Len(DigitChars))
         \o <<DigitChars[(n % Len(DigitChars)) + 1]>>

\* str(n) of an int.
str_int(n) == IF n < 0 THEN <<"-">> \o str_nat(-n) ELSE str_nat(n)

\* The digits after the point of r / d, r < d, by long division; d is
\* taken to have a terminating expansion.
RECURSIVE fraction_digits(_, _)
fraction_digits(r, d) ==
    IF r = 0 THEN <<>>
    ELSE <<DigitChars[((r * Len(DigitChars)) \div d) + 1]>>
         \o fraction_digits((r * Len(DigitChars)) % d, d)

\* str(n / d) of the float quotient of two ints, d > 0, for quotients with
\* a short terminating decimal expansion: "1.0", "0.5", "-1.5".
str_float(n, d) ==
    LET m    == IF n < 0 THEN -n ELSE n
        frac == fraction_digits(m % d, d)
    IN  (IF n < 0 THEN <<"-">> ELSE <<>>)
        \o str_nat(m \div d) \o <<".">>
        \o (IF frac = <<>> THEN <<"0">> ELSE frac)

\* The value of a run of digits.
RECURSIVE int_literal(_)
int_literal(ds) ==
    IF ds = <<>> THEN 0
    ELSE int_literal(SubSeq(ds, 1, Len(ds) - 1)) * Len(DigitChars)
         + DigitValue(ds[Len(ds)])

\* result.replace('*', str(common_param))
RECURSIVE replace_star(_, _)
replace_star(s, common_param) ==
    IF s = <<>> THEN <<>>
    ELSE (IF Head(s) = "*" THEN common_param ELSE <<Head(s)>>)
         \o replace_star(Tail(s), common_param)

\* A variant that lets only i, i+k and i-k through.
SafeExpression_plusMinusOnly(expr) ==
    \/ expr = <<"i">>
    \/ /\ Len(expr) >= 3
       /\ expr[1] = "i"
       /\ expr[2] \in {"+", "-"}
       /\ \A n \in 3..Len(expr) : IsDigit(expr[n])

\* re.match(r'^i[\+\-\*/]\d+$|^i$', expr)
SafeExpression(expr) ==
    \/ expr = <<"i">>
    \/ /\ Len(expr) >= 3
       /\ expr[1] = "i"
       /\ expr[2] \in {"+", "-", "*", "/"}
       /\ \A n \in 3..Len(expr) : IsDigit(expr[n])

\* A variant that takes every expression that begins with i for the index.
replace_expression_anyIndex(group, file_index) ==
    IF Len(group) > 2 /\ group[2] = "i" THEN str_int(file_index) ELSE group

\* replace_expression on one match of \{([^}]+)\}: an expression the
\* regular expression lets through is evaluated with eval and its value
\* written with str; `/` is the true division, whose value is a float.  A
\* number with a leading zero is a SyntaxError and a division by zero a
\* ZeroDivisionError: both are caught and the match stays as written, as
\* does every other expression.
replace_expression(group, file_index) ==
    LET expr == SubSeq(group, 2, Len(group) - 1)
        ds   == SubSeq(expr, 3, Len(expr))
        k    == int_literal(ds)
    IN  IF ~SafeExpression(expr) THEN group
        ELSE IF expr = <<"i">> THEN str_int(file_index)
        ELSE IF ds[1] = "0" /\ \E n \in 1..Len(ds) : ds[n] # "0" THEN group
        ELSE CASE expr[2] = "+" -> str_int(file_index + k)
               [] expr[2] = "-" -> str_int(file_index - k)
               [] expr[2] = "*" -> str_int(file_index * k)
               [] expr[2] = "/" -> IF k = 0 THEN group
                                   ELSE str_float(file_index, k)

\* The position of the first "}" of s at or after position p, 0 for none.
RECURSIVE FindClose(_, _)
FindClose(s, p) ==
    IF p > Len(s) THEN 0
    ELSE IF s[p] = "}" THEN p
    ELSE FindClose(s, p + 1)

\* re.sub(r'\{([^}]+)\}', replace_expression, result) from position p on:
\* a match starts at a "{" that is followed by one character or more other
\* than "}" and then by a "}"; the search goes on after the match.
RECURSIVE re_sub(_, _, _)
re_sub(s, p, file_index) ==
    IF p > Len(s) THEN <<>>
    ELSE LET q == FindClose(s, p + 1)
         IN  IF s[p] = "{" /\ q > p + 1
             THEN replace_expression(SubSeq(s, p, q), file_index)
                  \o re_sub(s, q + 1, file_index)
             ELSE <<s[p]>> \o re_sub(s, p + 1, file_index)

\* common_param=None, which no run of characters is.
NoCommonParam == <<"None">>

\* expand_path_pattern: every `*` becomes the common parameter unless that
\* is None, then, when a file index is given (PyNone is None), the brace
\* expressions are replaced.
expand_path_pattern(pattern, common_param, file_index) ==
    LET result == IF common_param = NoCommonParam THEN pattern
                  ELSE replace_star(pattern, common_param)
    IN  IF file_index = PyNone THEN result ELSE re_sub(result, 1, file_index)

\* expand_pattern_list
expand_pattern_list(pattern, common_param, file_indices) ==
    [n \in 1..Len(file_indices) |->
        expand_path_pattern(pattern, common_param, file_indices[n])]

\* pattern.count(c) of one character.
CountChar(s, c) == Cardinality({n \in 1..Len(s) : s[n] = c})

\* pattern.count('{i}')
CountIndex(s) ==
    Cardinality({n \in 1..(Len(s) - 2) : SubSeq(s, n, n + 2) = <<"{", "i", "}">>})

\* re.findall(r'\{[^i}]+\}', pattern) finds something: a "{", then one
\* character or more, none of them "i" or "}", then a "}".
HasFormatMatch(s) ==
    \E n \in 1..Len(s) :
        /\ s[n] = "{"
        /\ LET q == FindClose(s, n + 1)
           IN  /\ q > n + 1
               /\ \A m \in (n + 1)..(q - 1) : s[m] # "i"

\* validate_path_pattern: the first component of the pair it returns.
validate_path_pattern(pattern) ==
    IF pattern = <<>> THEN TRUE
    ELSE IF CountIndex(pattern) > 1 THEN FALSE
    ELSE IF HasFormatMatch(pattern) THEN FALSE
    ELSE CountChar(pattern, "{") = CountChar(pattern, "}")

\* os.path.join(baseDir, relative)
os_path_join(baseDir, relative) ==
    IF relative # <<>> /\ relative[1] = "/" THEN relative
    ELSE IF baseDir = <<>> \/ baseDir[Len(baseDir)] = "/"
    THEN baseDir \o relative
    ELSE baseDir \o <<"/">> \o relative

\* os.path.dirname(path): what stands before the last "/", without the
\* slashes that end it unless it is all slashes.
RECURSIVE rstrip_slash(_)
rstrip_slash(s) ==
    IF s = <<>> \/ s[Len(s)] # "/" THEN s
    ELSE rstrip_slash(SubSeq(s, 1, Len(s) - 1))

RECURSIVE os_path_dirname(_)
os_path_dirname(path) ==
    IF path = <<>> THEN <<>>
    ELSE IF path[Len(path)] # "/"
    THEN os_path_dirname(SubSeq(path, 1, Len(path) - 1))
    ELSE IF rstrip_slash(path) = <<>> THEN path
    ELSE rstrip_slash(path)

\* ------------------------------------------------------------ the XSC file
\* A token of a line: a number that float() parses, or any other word.
Num(v) == [num |-> TRUE, val |-> v]
Word == [num |-> FALSE, val |-> 0]

\* The XSC file as its lines, each line as its tokens (line.split()); a
\* file that does not exist.
XscFile(lines) == [exists |-> TRUE, lines |-> lines]
NoXsc == [exists |-> FALSE, lines |-> <<>>]

\* A line of cell vectors: step, a_x a_y a_z, b_x b_y b_z, c_x c_y c_z.
BoxLine(box) ==
    <<Num(0), Num(box[1]), Num(0), Num(0), Num(0), Num(box[2]), Num(0),
      Num(0), Num(0), Num(box[3])>>

\* float(lines[-1].split()[pos]) for pos = 1, 5, 9 in turn: the box
\* lengths, or the exception of the first step that fails.
ReadXsc(x) ==
    LET bad(e) == [ok |-> FALSE, box |-> <<>>, err |-> e]
        last   == x.lines[Len(x.lines)]
        at(pos) == IF Len(last) < pos + 1 THEN "IndexError"
                   ELSE IF ~last[pos + 1].num THEN "ValueError"
                   ELSE ""
    IN  IF ~x.exists THEN bad("FileNotFoundError")
        ELSE IF x.lines = <<>> THEN bad("IndexError")
        ELSE IF at(1) # "" THEN bad(at(1))
        ELSE IF at(5) # "" THEN bad(at(5))
        ELSE IF at(9) # "" THEN bad(at(9))
        ELSE [ok  |-> TRUE,
              box |-> <<last[2].val, last[6].val, last[10].val>>,
              err |-> ""]

\* A variant whose except clause leaves IndexError out.
XscError_noIndexError(e) ==
    IF e \in {"FileNotFoundError", "ValueError"} THEN "ValueError" ELSE e

\* except (FileNotFoundError, IndexError, ValueError) as e: raise ValueError
XscError(e) ==
    IF e \in {"FileNotFoundError", "IndexError", "ValueError"}
    THEN "ValueError" ELSE e

\* ------------------------------------------------------------ sample inputs
\* The output patterns tried: one file per index, one file for all indices,
\* a shifted index, and a pattern that the validation rejects.
BaseDir == <<"r", "u", "n">>
CommonTerm == <<"2", "4", "0">>

\* "results_*", the output directory of a2_MSD and alpha_xz.
ResultsPattern == <<"r", "e", "s", "u", "l", "t", "s", "_", "*">>

\* "*/com_{i}.dat"
DefaultPattern ==
    <<"*", "/", "c", "o", "m", "_", "{", "i", "}", ".", "d", "a", "t">>

\* The default, "*/com.dat", "com_{i-1}.dat" and "*/com_{j}.dat".
OutputPatterns ==
    {DefaultPattern,
     <<"*", "/", "c", "o", "m", ".", "d", "a", "t">>,
     <<"c", "o", "m", "_", "{", "i", "-", "1", "}", ".", "d", "a", "t">>,
     <<"*", "/", "c", "o", "m", "_", "{", "j", "}", ".", "d", "a", "t">>}

\* The trajectory files a2_MSD and alpha_xz are run on, for M molecules: an
\* absent file, a file one column short, a file one column long, a one-line
\* file, two-line files at rest and in motion, and longer files.
TrajFiles(M) ==
    {NoFile,
     Trajectory(2, 3 * M - 1, 1, 0),
     Trajectory(2, 3 * M + 1, 1, 0),
     Trajectory(1, 3 * M, 1, 0),
     Trajectory(2, 3 * M, 0, 0),
     Trajectory(2, 3 * M, 1, 1)}
    \cup {Trajectory(r, 3 * M, 2, 1) : r \in 3..MaxFrames}

\* The coordinate files coms and unwrapper are run on, `cols` being the
\* column count the call expects: absent, well-formed, one column long.
CoordFiles(cols) ==
    {NoFile,
     Trajectory(2, cols, 1, 1),
     Trajectory(2, cols + 1, 1, 1)}

\* The molecule counts tried: on both sides of the `> 2` of a2_MSD and of
\* the `> 1` of alpha_xz.
MoleculeCounts(name) == IF name = "a2_MSD" THEN {2, 3} ELSE {1, 2}

\* numFrames
FrameCounts == {2, MaxFrames}

\* range(num_dcd)
range(n) == [i \in 1..n |-> i - 1]

\* <<num_dcd, dcd_indices>> as passed to coms and unwrapper (<<>> is None).
FileSelections ==
    {<<n, <<>>>> : n \in {PyNone} \cup (0..MaxFiles)}
    \cup {<<PyNone, <<1, 0>>>>, <<0, <<1, 0>>>>, <<2, <<1, 0>>>>,
          <<4, <<0, 1, 2, 3>>>>}

\* <<max_workers, mp.cpu_count()>>
WorkerChoices == {<<PyNone, 1>>, <<PyNone, 4>>, <<1, 4>>, <<2, 4>>}

\* <<prtcl_num, prtcl_atoms, particl_mass>> of coms.
MoleculeChoices == {<<1, 2, <<1, 3>>>>, <<1, 2, <<1>>>>}

\* The XSC file of unwrapper: a header and a line of cell vectors; no
\* file; an empty file; a last line that is blank, that stops before token
\* 5, and that has a word at token 9.
GoodXsc == XscFile(<<(<<Word, Word>>), BoxLine(<<4, 4, 6>>)>>)

XscChoices ==
    {GoodXsc,
     NoXsc,
     XscFile(<<>>),
     XscFile(<<BoxLine(<<4, 4, 6>>), <<>>>>),
     XscFile(<<(<<Num(0), Num(4), Num(0)>>)>>),
     XscFile(<<SubSeq(BoxLine(<<4, 4, 6>>), 1, 9) \o <<Word>>>>)}

\* ------------------------------------------------------------------- state
VARIABLES
    fn,               \* the entry point called
    args,             \* its arguments
    files,            \* the input file of each file index
    xsc,              \* the XSC file
    cpu_count,        \* mp.cpu_count()
    pc,               \* where the call stands
    dcd_list,
    max_workers,
    box_size,
    f,                \* the position of the file loop
    done,             \* the positions whose future has finished
    collected,        \* the positions whose future as_completed has yielded
    futures,          \* for each finished position, whether its task raised
    successful_files,
    accumulators,     \* <<>> is None
    results,          \* the result record
    stats,            \* the arrays computed after the loop
    stat_files,       \* the text of the statistics files written
    out_files,        \* the text of the per-index output files written
    dirs,             \* the directories os.makedirs has made
    total_frames,     \* dipole_functions: the frames counted so far
    summary,          \* dipole_functions: the summary returned
    raised,           \* the exception that left the call, "" for none
    coords,           \* _unwrap_single_file: the wrapped frames
    unwrapped,        \* _unwrap_single_file: the unwrapped frames
    frame,            \* _unwrap_single_file: the position of the frame loop
    data,             \* _compute_com_single_file: the array loaded
    centers_of_mass   \* _compute_com_single_file: the array computed

vars == <<fn, args, files, xsc, cpu_count, pc, dcd_list, max_workers, box_size,
          f, done, collected, futures, successful_files, accumulators, results,
          stats, stat_files, out_files, dirs, total_frames, summary, raised,
          coords, unwrapped, frame, data, centers_of_mass>>

\* The variables of a worker run on its own, which the entry points leave
\* alone, and those of the entry points, which such a run leaves alone.
worker_vars == <<coords, unwrapped, frame, data, centers_of_mass>>
driver_vars == <<xsc, cpu_count, dcd_list, max_workers, f, done, collected,
                 futures, successful_files, accumulators, results, stats,
                 stat_files>>

driver_vars_but_results ==
    <<xsc, cpu_count, dcd_list, max_workers, f, done, collected, futures,
      successful_files, accumulators, stats, stat_files>>

NoStats == [written |-> FALSE]

\* No summary has been made.
NoSummary == [success |-> 0, total |-> 0, total_frames |-> 0,
              data_quality |-> ""]

\* What every call starts from.
InitCommon ==
    /\ f = 0
    /\ done = {}
    /\ collected = {}
    /\ futures = <<>>
    /\ successful_files = 0
    /\ accumulators = <<>>
    /\ stats = NoStats
    /\ stat_files = NoStats
    /\ out_files = <<>>
    /\ dirs = {}
    /\ total_frames = 0
    /\ summary = NoSummary
    /\ raised = ""
    /\ dcd_list = <<>>
    /\ max_workers = PyNone
    /\ coords = NoArray
    /\ unwrapped = NoArray
    /\ frame = 0
    /\ data = NoArray
    /\ centers_of_mass = NoArray

InitStatistics ==
    \E name \in {"a2_MSD", "alpha_xz"} :
    \E n \in 0..MaxFiles :
    \E M \in MoleculeCounts(name) :
    \E nF \in FrameCounts :
        /\ fn = name
        /\ args = [num_dcd |-> n, partcl_num |-> M, numFrames |-> nF,
                   baseDir |-> BaseDir, output_pattern |-> ResultsPattern,
                   common_term |-> CommonTerm]
        /\ files \in [0..((IF n = 0 THEN 1 ELSE n) - 1) -> TrajFiles(M)]
        /\ xsc = NoXsc
        /\ cpu_count = 1
        /\ results = [success |-> 0, failed |-> <<>>, skipped_files |-> <<>>]
        /\ pc = "call"
        /\ box_size = <<>>
        /\ InitCommon

InitPerFile ==
    \E name \in {"coms", "coms_memory_optimized", "unwrapper"} :
    \E sel \in FileSelections :
    \E w \in WorkerChoices :
    \E mol \in MoleculeChoices :
    \E x \in XscChoices :
    \E pat \in OutputPatterns :
        /\ fn = name
        /\ name # "unwrapper" => x = GoodXsc
        /\ name = "unwrapper" => mol = <<1, 2, <<1, 3>>>>
        /\ pat = DefaultPattern
           \/ /\ name = "coms"
              /\ sel \in {<<2, <<>>>>, <<3, <<>>>>}
              /\ w = <<2, 4>>
              /\ mol = <<1, 2, <<1, 3>>>>
        /\ args = [num_dcd |-> sel[1], dcd_indices |-> sel[2],
                   max_workers |-> w[1],
                   prtcl_num |-> mol[1], prtcl_atoms |-> mol[2],
                   particl_mass |-> mol[3],
                   num_atoms |-> mol[1] * mol[2],
                   interval |-> [start |-> PyNone, stop |-> PyNone],
                   stride |-> 1,
                   baseDir |-> BaseDir, output_pattern |-> pat,
                   common_term |-> CommonTerm]
        /\ cpu_count = w[2]
        /\ xsc = x
        /\ files \in [(IF name = "coms_memory_optimized" THEN {0}
                       ELSE IF sel[2] # <<>> THEN Range(sel[2])
                       ELSE IF sel[1] = PyNone THEN {}
                       ELSE 0..(sel[1] - 1))
                      -> CoordFiles(mol[1] * mol[2] * 3)]
        /\ results = [success |-> 0, failed |-> <<>>]
        /\ pc = "call"
        /\ box_size = <<>>
        /\ InitCommon

Init == InitStatistics \/ InitPerFile

\* --------------------------------------------------- coms and unwrapper
\* The per-file worker of the entry point: what it writes, or that it raises.
\* coms_memory_optimized hands its two patterns to the worker as they are:
\* every index reads the one file of that name.
Worker(i) ==
    IF fn = "coms"
    THEN compute_com_single_file(files[i], args.prtcl_num, args.prtcl_atoms,
                                 args.particl_mass, SumSeq(args.particl_mass))
    ELSE IF fn = "coms_memory_optimized"
    THEN compute_com_single_file_optimized(files[0], args.prtcl_num,
                                           args.prtcl_atoms, args.particl_mass,
                                           SumSeq(args.particl_mass))
    ELSE unwrap_single_file(files[i], args.num_atoms, box_size,
                            HalfBox(box_size), args.interval, args.stride)

\* The path the task of file index i writes.
output_file(i) ==
    IF fn = "coms_memory_optimized"
    THEN args.baseDir \o <<"/">> \o args.output_pattern
    ELSE os_path_join(args.baseDir,
                      expand_path_pattern(args.output_pattern,
                                          args.common_term, i))

\* os.path.dirname(output_file): the directory that path stands in.
output_dir(i) == os_path_dirname(output_file(i))

\* The directories there are once the worker of file index i has run its
\* os.makedirs; the worker of coms_memory_optimized has none.
WorkerDirs(i) ==
    IF fn = "coms_memory_optimized" THEN dirs ELSE dirs \cup {output_dir(i)}

\* A variant that makes the output directory first of all.
CallDirs_beforeChecks(early, list) ==
    IF fn = "coms_memory_optimized" THEN dirs \cup {output_dir(0)}
    ELSE IF list # <<>> THEN dirs \cup {output_dir(list[1])}
    ELSE dirs

\* The directories there are once the entry point has been through its
\* os.makedirs: none is made when the call has raised before (early); coms
\* and unwrapper make the directory of the first index of a list that is
\* not empty, coms_memory_optimized that of its one output path.
CallDirs(early, list) ==
    IF early THEN dirs
    ELSE IF fn = "coms_memory_optimized" THEN dirs \cup {output_dir(0)}
    ELSE IF list # <<>> THEN dirs \cup {output_dir(list[1])}
    ELSE dirs

\* if dcd_indices is None: dcd_list = list(range(num_dcd))
DcdList == IF args.dcd_indices = <<>> THEN range(args.num_dcd)
           ELSE args.dcd_indices

\* A variant in which unwrapper, too, stays sequential below four files.
DefaultWorkers_fourFilesRule(n) ==
    LET both == IF n < cpu_count THEN n ELSE cpu_count
    IN  IF n >= 4 THEN both ELSE 1

\* The worker count when max_workers is None: coms goes parallel from four
\* files on, unwrapper whenever there are files and processors for it.
DefaultWorkers(n) ==
    LET both == IF n < cpu_count THEN n ELSE cpu_count
    IN  IF fn = "unwrapper" THEN both ELSE (IF n >= 4 THEN both ELSE 1)

\* coms, coms_memory_optimized and unwrapper up to the processing of the
\* files.  In the order of the code: the output pattern (coms, unwrapper),
\* the mass list (coms, coms_memory_optimized), the index list, the XSC
\* file (unwrapper), the first input file (coms, unwrapper), the executor.
\* coms_memory_optimized counts num_dcd, not the index list, for its
\* default worker count.
PerFileCall ==
    /\ pc = "call"
    /\ fn \in {"coms", "coms_memory_optimized", "unwrapper"}
    /\ LET list == DcdList
           w    == IF args.max_workers = PyNone
                   THEN DefaultWorkers(IF fn = "coms_memory_optimized"
                                       THEN args.num_dcd ELSE Len(list))
                   ELSE args.max_workers
           early == \/ fn # "coms_memory_optimized"
                       /\ ~validate_path_pattern(args.output_pattern)
                    \/ fn # "unwrapper"
                       /\ Len(args.particl_mass) # args.prtcl_atoms
                    \/ fn # "coms_memory_optimized"
                       /\ args.dcd_indices = <<>> /\ args.num_dcd = PyNone
           err  == IF fn # "coms_memory_optimized"
                      /\ ~validate_path_pattern(args.output_pattern)
                   THEN "ValueError"
                   ELSE IF fn # "unwrapper"
                           /\ Len(args.particl_mass) # args.prtcl_atoms
                   THEN "ValueError"
                   ELSE IF fn = "coms_memory_optimized"
                           /\ args.max_workers = PyNone /\ args.num_dcd = PyNone
                   THEN "TypeError"
                   ELSE IF args.dcd_indices = <<>> /\ args.num_dcd = PyNone
                   THEN "TypeError"
                   ELSE IF fn = "unwrapper" /\ ~ReadXsc(xsc).ok
                   THEN XscError(ReadXsc(xsc).err)
                   ELSE IF fn # "coms_memory_optimized"
                           /\ list # <<>> /\ files[list[1]] = NoFile
                   THEN "FileNotFoundError"
                   ELSE IF w # 1 /\ w <= 0 THEN "ValueError"
                   ELSE ""
       IN  /\ IF err # ""
              THEN /\ pc' = "raised"
                   /\ raised' = err
                   /\ UNCHANGED <<dcd_list, max_workers, box_size>>
              ELSE /\ dcd_list' = list
                   /\ max_workers' = w
                   /\ box_size' = IF fn = "unwrapper" THEN ReadXsc(xsc).box
                                   ELSE box_size
                   /\ pc' = IF w = 1 THEN "sequential" ELSE "pool"
                   /\ UNCHANGED raised
           /\ dirs' = CallDirs(early, list)
    /\ UNCHANGED worker_vars
    /\ UNCHANGED <<fn, args, files, total_frames, summary, xsc, cpu_count, f,
                   done, collected, futures, successful_files, accumulators,
                   results, stats, stat_files, out_files>>

\* A variant without the try/except around the worker: its exception
\* leaves the call.
SequentialFile_noCatch ==
    /\ pc = "sequential"
    /\ f < Len(dcd_list)
    /\ LET i == dcd_list[f + 1]
           r == Worker(i)
       IN  IF r.ok
           THEN /\ out_files' = (i :> r.out) @@ out_files
                /\ results' = [results EXCEPT !.success = @ + 1]
                /\ f' = f + 1
                /\ UNCHANGED <<pc, raised>>
           ELSE /\ pc' = "raised"
                /\ raised' = r.err
                /\ UNCHANGED <<out_files, results, f>>
    /\ dirs' = WorkerDirs(dcd_list[f + 1])
    /\ UNCHANGED worker_vars
    /\ UNCHANGED <<fn, args, files, total_frames, summary, xsc, cpu_count,
                   dcd_list, max_workers, box_size, done, collected, futures,
                   successful_files, accumulators, stats, stat_files>>

\* One pass of `for i in dcd_list` when max_workers == 1.
SequentialFile ==
    /\ pc = "sequential"
    /\ f < Len(dcd_list)
    /\ LET i == dcd_list[f + 1]
           r == Worker(i)
       IN  IF r.ok
           THEN /\ out_files' = (i :> r.out) @@ out_files
                /\ results' = [results EXCEPT !.success = @ + 1]
           ELSE /\ results' = [results EXCEPT !.failed = Append(@, i)]
                /\ UNCHANGED out_files
    /\ f' = f + 1
    /\ dirs' = WorkerDirs(dcd_list[f + 1])
    /\ UNCHANGED worker_vars
    /\ UNCHANGED <<fn, args, files, total_frames, summary, xsc, cpu_count, pc,
                   dcd_list, max_workers, box_size, done, collected, futures,
                   successful_files, accumulators, stats, stat_files, raised>>

\* The sequential loop as a whole, run over `list` from the record r.
RECURSIVE SequentialRun(_, _)
SequentialRun(list, r) ==
    IF list = <<>> THEN r
    ELSE LET i == Head(list)
             w == Worker(i)
         IN  SequentialRun(Tail(list),
                 IF w.ok
                 THEN [r EXCEPT !.success = @ + 1, !.out = (i :> w.out) @@ @]
                 ELSE [r EXCEPT !.failed = Append(@, i)])

\* A variant in which a task that raises takes the tasks not yet finished
\* down with it.
TaskFinishes_cancelsSiblings(j) ==
    /\ pc = "pool"
    /\ j \in (1..Len(dcd_list)) \ done
    /\ LET i == dcd_list[j]
           r == Worker(i)
       IN  IF r.ok
           THEN /\ out_files' = (i :> r.out) @@ out_files
                /\ futures' = (j :> TRUE) @@ futures
                /\ done' = done \cup {j}
           ELSE /\ out_files' = out_files
                /\ futures' = [k \in (1..Len(dcd_list)) \ done |-> FALSE]
                                  @@ futures
                /\ done' = 1..Len(dcd_list)
    /\ dirs' = WorkerDirs(dcd_list[j])
    /\ UNCHANGED worker_vars
    /\ UNCHANGED <<fn, args, files, total_frames, summary, xsc, cpu_count, pc,
                   dcd_list, max_workers, box_size, f, collected,
                   successful_files, accumulators, results, stats, stat_files,
                   raised>>

\* A pool process runs the task submitted for position j of dcd_list to its
\* end; the future then holds its result or its exception.
TaskFinishes(j) ==
    /\ pc = "pool"
    /\ j \in (1..Len(dcd_list)) \ done
    /\ LET i == dcd_list[j]
           r == Worker(i)
       IN  /\ out_files' = IF r.ok THEN (i :> r.out) @@ out_files ELSE out_files
           /\ futures' = (j :> r.ok) @@ futures
    /\ done' = done \cup {j}
    /\ dirs' = WorkerDirs(dcd_list[j])
    /\ UNCHANGED worker_vars
    /\ UNCHANGED <<fn, args, files, total_frames, summary, xsc, cpu_count, pc,
                   dcd_list, max_workers, box_size, f, collected,
                   successful_files, accumulators, results, stats, stat_files,
                   raised>>

\* A variant that counts the future before asking for its result.
CollectFuture_countsFirst(j) ==
    /\ pc = "pool"
    /\ j \in done \ collected
    /\ results' = IF futures[j]
                  THEN [results EXCEPT !.success = @ + 1]
                  ELSE [results EXCEPT !.success = @ + 1,
                                       !.failed = Append(@, dcd_list[j])]
    /\ collected' = collected \cup {j}
    /\ UNCHANGED worker_vars
    /\ UNCHANGED <<fn, args, files, total_frames, summary, dirs, xsc,
                   cpu_count, pc, dcd_list, max_workers, box_size, f, done,
                   futures, successful_files, accumulators, stats, stat_files,
                   out_files, raised>>

\* One pass of `for future in as_completed(future_to_index)`.
CollectFuture(j) ==
    /\ pc = "pool"
    /\ j \in done \ collected
    /\ results' = IF futures[j]
                  THEN [results EXCEPT !.success = @ + 1]
                  ELSE [results EXCEPT !.failed = Append(@, dcd_list[j])]
    /\ collected' = collected \cup {j}
    /\ UNCHANGED worker_vars
    /\ UNCHANGED <<fn, args, files, total_frames, summary, dirs, xsc,
                   cpu_count, pc, dcd_list, max_workers, box_size, f, done,
                   futures, successful_files, accumulators, stats, stat_files,
                   out_files, raised>>

\* After the files: the summary divides the total time by num_dcd, then the
\* result record is returned.
Summarize ==
    /\ \/ pc = "sequential" /\ f = Len(dcd_list)
       \/ pc = "pool" /\ collected = 1..Len(dcd_list)
    /\ IF args.num_dcd = PyNone
       THEN pc' = "raised" /\ raised' = "TypeError"
       ELSE IF args.num_dcd = 0
       THEN pc' = "raised" /\ raised' = "ZeroDivisionError"
       ELSE pc' = "returned" /\ UNCHANGED raised
    /\ UNCHANGED worker_vars
    /\ UNCHANGED <<fn, args, files, total_frames, summary, dirs, xsc,
                   cpu_count, dcd_list, max_workers, box_size, f, done,
                   collected, futures, successful_files, accumulators,
                   results, stats, stat_files, out_files>>

\* ------------------------------------------------- a2_MSD and alpha_xz
\* os.path.join(baseDir, expand_path_pattern(output_pattern, common_term))
StatisticsOutputDir ==
    os_path_join(args.baseDir,
                 expand_path_pattern(args.output_pattern, args.common_term,
                                     PyNone))

\* The directory the statistics files are written in: MSDs for a2_MSD,
\* which writes its second file in alpha2s, and alpha_xz for alpha_xz.
ResultsDir ==
    os_path_join(StatisticsOutputDir,
                 IF fn = "a2_MSD" THEN <<"M", "S", "D", "s">>
                 ELSE <<"a", "l", "p", "h", "a", "_", "x", "z">>)

\* The directories a2_MSD and alpha_xz make before their file loop.
StatisticsDirs ==
    {StatisticsOutputDir, ResultsDir}
    \cup (IF fn = "a2_MSD"
          THEN {os_path_join(StatisticsOutputDir,
                             <<"a", "l", "p", "h", "a", "2", "s">>)}
          ELSE {})

\* A variant without the check of the first input file.
StatisticsCall_noCheck ==
    /\ pc = "call"
    /\ fn \in {"a2_MSD", "alpha_xz"}
    /\ pc' = "loop"
    /\ UNCHANGED raised
    /\ dirs' = dirs \cup StatisticsDirs
    /\ UNCHANGED worker_vars
    /\ UNCHANGED <<fn, args, files, total_frames, summary, xsc, cpu_count,
                   dcd_list, max_workers, box_size, f, done, collected,
                   futures, successful_files, accumulators, results, stats,
                   stat_files, out_files>>

\* a2_MSD and alpha_xz up to their file loop: the output directories are
\* made and the file of index 0 must exist.
StatisticsCall ==
    /\ pc = "call"
    /\ fn \in {"a2_MSD", "alpha_xz"}
    /\ IF files[0] = NoFile
       THEN /\ pc' = "raised"
            /\ raised' = "FileNotFoundError"
       ELSE /\ pc' = "loop"
            /\ UNCHANGED raised
    /\ dirs' = dirs \cup StatisticsDirs
    /\ UNCHANGED worker_vars
    /\ UNCHANGED <<fn, args, files, total_frames, summary, xsc, cpu_count,
                   dcd_list, max_workers, box_size, f, done, collected,
                   futures, successful_files, accumulators, results, stats,
                   stat_files, out_files>>

\* One pass of `for f in range(num_dcd)`.
TrajectoryFile ==
    /\ pc = "loop"
    /\ fn \in {"a2_MSD", "alpha_xz"}
    /\ f < args.num_dcd
    /\ LET r == ProcessTrajectory(fn, files[f], args.partcl_num, args.numFrames,
                                  accumulators)
       IN  /\ accumulators' = r.acc
           /\ successful_files' =
                 successful_files + (IF r.bucket = "success" THEN 1 ELSE 0)
           /\ results' =
                 [results EXCEPT
                    !.failed = IF r.bucket = "failed" THEN Append(@, f) ELSE @,
                    !.skipped_files =
                        IF r.bucket = "skipped" THEN Append(@, f) ELSE @]
    /\ f' = f + 1
    /\ UNCHANGED worker_vars
    /\ UNCHANGED <<fn, args, files, total_frames, summary, dirs, xsc,
                   cpu_count, pc, dcd_list, max_workers, box_size, done,
                   collected, futures, stats, stat_files, out_files, raised>>

\* A variant that returns the result record when nothing succeeded.
EnsembleCloseOut_returnsEmpty ==
    /\ pc = "loop"
    /\ fn \in {"a2_MSD", "alpha_xz"}
    /\ f = args.num_dcd
    /\ successful_files = 0
    /\ pc' = "returned"
    /\ dirs' = IF successful_files = 0 \/ accumulators = <<>> THEN dirs
               ELSE dirs \cup {ResultsDir}
    /\ UNCHANGED worker_vars
    /\ UNCHANGED <<fn, args, files, total_frames, summary, xsc, cpu_count,
                   dcd_list, max_workers, box_size, f, done, collected,
                   futures, successful_files, accumulators, results, stats,
                   stat_files, out_files, raised>>

\* After the loop: raise when nothing succeeded, else average, write the
\* statistics files and return the result record.
EnsembleCloseOut ==
    /\ pc = "loop"
    /\ fn \in {"a2_MSD", "alpha_xz"}
    /\ f = args.num_dcd
    /\ IF successful_files = 0 \/ accumulators = <<>>
       THEN /\ results' = [results EXCEPT !.failed = Append(@, general_error)]
            /\ raised' = "RuntimeError"
            /\ pc' = "raised"
            /\ UNCHANGED <<stats, stat_files>>
       ELSE LET st == IF fn = "a2_MSD"
                      THEN MSDStatistics(accumulators, successful_files,
                                         args.partcl_num)
                      ELSE AxzStatistics(accumulators, successful_files,
                                         args.partcl_num)
            IN  /\ stats' = st
                /\ stat_files' =
                      IF fn = "a2_MSD"
                      THEN [written |-> TRUE,
                            MSD    |-> savetxt(st.msd_avg, Micro),
                            alpha2 |-> savetxt(st.alpha2, 1)]
                      ELSE [written |-> TRUE,
                            axz |-> savetxt(st.alpha_xz, 1),
                            axy |-> savetxt(st.alpha_xy, 1),
                            ayz |-> savetxt(st.alpha_yz, 1),
                            anisotropy |-> savetxt(st.anisotropy, 1)]
                /\ results' = [results EXCEPT !.success = successful_files]
                /\ pc' = "returned"
                /\ UNCHANGED raised
    /\ dirs' = IF successful_files = 0 \/ accumulators = <<>> THEN dirs
               ELSE dirs \cup {ResultsDir}
    /\ UNCHANGED worker_vars
    /\ UNCHANGED <<fn, args, files, total_frames, summary, xsc, cpu_count,
                   dcd_list, max_workers, box_size, f, done, collected,
                   futures, successful_files, accumulators, out_files>>

Next ==
    \/ PerFileCall
    \/ SequentialFile
    \/ \E j \in 1..(MaxFiles + 1) : TaskFinishes(j)
    \/ \E j \in 1..(MaxFiles + 1) : CollectFuture(j)
    \/ Summarize
    \/ StatisticsCall
    \/ TrajectoryFile
    \/ EnsembleCloseOut

Spec == Init /\ [][Next]_vars

\* ------------------------------------------- _unwrap_single_file on its own
\* One wrapped frame of one atom in a box of lengths <<4, 4, 5>>: along x
\* every position of 0..3, so that steps of less than, exactly and more than
\* half the box occur; along y the two ends; z follows from x and y.
WrappedFrames == {<<x, y, (2 * x + y) % 5>> : x \in 0..3, y \in {0, 3}}

\* Frames of two atoms that cross the box in opposite directions.
WrappedPairs == {<<0, 0, 0, 3, 3, 4>>, <<3, 3, 4, 0, 0, 0>>, <<1, 0, 2, 2, 3, 1>>}

\* <<box lengths, wrapped file>>: every file of up to MaxFrames frames of
\* one atom, two-frame files of two atoms, no file, and positions 4.0 and
\* 9.0 along x in a box of length 10.
UnwrapInputs ==
    {<<(<<4, 4, 5>>), TextFile(t)>> :
        t \in UNION {[1..n -> WrappedFrames] : n \in 1..MaxFrames}}
    \cup {<<(<<4, 4, 5>>), TextFile(t)>> : t \in [1..2 -> WrappedPairs]}
    \cup {<<(<<4, 4, 5>>), NoFile>>,
          <<(<<10000, 10000, 10000>>),
            TextFile(<<(<<4000, 0, 0>>), (<<9000, 0, 0>>)>>)>>}

\* <<interval, stride>>
FrameSelections ==
    {<<[start |-> PyNone, stop |-> PyNone], 1>>,
     <<[start |-> 1, stop |-> PyNone], 1>>,
     <<[start |-> 0, stop |-> 2], 2>>}

InitUnwrap ==
    \E inp \in UnwrapInputs :
    \E sel \in FrameSelections :
    \E n \in {1, 2} :
        /\ fn = "_unwrap_single_file"
        /\ args = [num_atoms |-> n, interval |-> sel[1], stride |-> sel[2],
                   baseDir |-> BaseDir, output_pattern |-> DefaultPattern,
                   common_term |-> CommonTerm]
        /\ files = (0 :> inp[2])
        /\ xsc = XscFile(<<BoxLine(inp[1])>>)
        /\ cpu_count = 1
        /\ results = [success |-> 0, failed |-> <<>>]
        /\ box_size = inp[1]
        /\ pc = "load"
        /\ InitCommon

\* np.loadtxt, coords[interval], the column check, the reshape and the seed.
UnwrapLoadFile ==
    /\ pc = "load"
    /\ fn = "_unwrap_single_file"
    /\ LET ld == UnwrapLoad(files[0], args.num_atoms, args.interval)
       IN  IF ld.ok
           THEN /\ coords' = ld.arr
                /\ unwrapped' = UnwrapSeed(ld.arr)
                /\ frame' = 1
                /\ pc' = "frames"
                /\ UNCHANGED raised
           ELSE /\ pc' = "raised"
                /\ raised' = ld.err
                /\ UNCHANGED <<coords, unwrapped, frame>>
    /\ UNCHANGED <<fn, args, files, total_frames, summary, box_size,
                   out_files, data, centers_of_mass>>
    /\ dirs' = WorkerDirs(0)
    /\ UNCHANGED driver_vars

\* One pass of `for frame in range(1, n_frames)`.
UnwrapNextFrame ==
    /\ pc = "frames"
    /\ frame < coords.shape[1]
    /\ unwrapped' = UnwrapFrame(coords, unwrapped, frame, box_size,
                                HalfBox(box_size))
    /\ frame' = frame + 1
    /\ UNCHANGED <<fn, args, files, total_frames, summary, dirs, box_size, pc,
                   out_files, raised, coords, data, centers_of_mass>>
    /\ UNCHANGED driver_vars

\* After the loop the frames are written and the index is returned.
UnwrapWrite ==
    /\ pc = "frames"
    /\ frame >= coords.shape[1]
    /\ out_files' = (0 :> UnwrapSave(unwrapped))
    /\ pc' = "returned"
    /\ UNCHANGED <<fn, args, files, total_frames, summary, dirs, box_size,
                   raised, coords, unwrapped, frame, data, centers_of_mass>>
    /\ UNCHANGED driver_vars

NextUnwrap == UnwrapLoadFile \/ UnwrapNextFrame \/ UnwrapWrite

SpecUnwrap == InitUnwrap /\ [][NextUnwrap]_vars

\* ------------------------------------ the chunked _unwrap_single_file
\* Longer files for the chunk loop: an atom that is at one corner of the box
\* or at the opposite one in each of MaxFrames + 2 frames.
ChunkedInputs ==
    UnwrapInputs
    \cup {<<(<<4, 4, 5>>), TextFile(t)>> :
             t \in [1..(MaxFrames + 2) -> {<<0, 0, 0>>, <<3, 3, 4>>}]}

\* chunk_size
ChunkSizes == 1..MaxFrames

InitChunked ==
    \E inp \in ChunkedInputs :
    \E sel \in FrameSelections :
    \E n \in {1, 2} :
    \E cs \in ChunkSizes :
        /\ fn = "_unwrap_single_file (chunked)"
        /\ args = [num_atoms |-> n, interval |-> sel[1], stride |-> sel[2],
                   chunk_size |-> cs]
        /\ files = (0 :> inp[2])
        /\ xsc = XscFile(<<BoxLine(inp[1])>>)
        /\ cpu_count = 1
        /\ results = [success |-> 0, failed |-> <<>>]
        /\ box_size = inp[1]
        /\ pc = "load"
        /\ InitCommon

\* Loading up to `unwrapped_xyz[0] = xyz[0]`; coords holds xyz, unwrapped
\* holds unwrapped_xyz, frame holds chunk_start.
ChunkedLoadFile ==
    /\ pc = "load"
    /\ fn = "_unwrap_single_file (chunked)"
    /\ LET ld == ChunkedLoad(files[0], args.num_atoms, args.interval,
                             args.stride)
       IN  IF ld.ok
           THEN /\ coords' = ld.arr
                /\ unwrapped' = UnwrapSeed(ld.arr)
                /\ frame' = 1
                /\ pc' = "chunks"
                /\ UNCHANGED raised
           ELSE /\ pc' = "raised"
                /\ raised' = ld.err
                /\ UNCHANGED <<coords, unwrapped, frame>>
    /\ UNCHANGED <<fn, args, files, total_frames, summary, dirs, box_size,
                   out_files, data, centers_of_mass>>
    /\ UNCHANGED driver_vars

\* One pass of `for chunk_start in range(1, n_frames, chunk_size)`.
ChunkedNextChunk ==
    /\ pc = "chunks"
    /\ frame < coords.shape[1]
    /\ unwrapped' = UnwrapChunk(coords, unwrapped, frame, args.chunk_size,
                                box_size, HalfBox(box_size))
    /\ frame' = frame + args.chunk_size
    /\ UNCHANGED <<fn, args, files, total_frames, summary, dirs, box_size, pc,
                   out_files, raised, coords, data, centers_of_mass>>
    /\ UNCHANGED driver_vars

\* After the loop the frames are written.
ChunkedWrite ==
    /\ pc = "chunks"
    /\ frame >= coords.shape[1]
    /\ out_files' = (0 :> UnwrapSave(unwrapped))
    /\ pc' = "returned"
    /\ UNCHANGED <<fn, args, files, total_frames, summary, dirs, box_size,
                   raised, coords, unwrapped, frame, data, centers_of_mass>>
    /\ UNCHANGED driver_vars

NextChunked == ChunkedLoadFile \/ ChunkedNextChunk \/ ChunkedWrite

SpecChunked == InitChunked /\ [][NextChunked]_vars

\* -------------------------------------- _compute_com_single_file on its own
\* <<prtcl_num, prtcl_atoms, particl_mass>>: equal and unequal masses, one
\* and several atoms, one and several molecules.
ComMolecules ==
    {<<1, 2, <<1, 3>>>>, <<2, 2, <<1, 2>>>>, <<2, 2, <<2, 2>>>>,
     <<2, 1, <<2>>>>, <<3, 2, <<1, 3>>>>}

\* The coordinate files for `cols` expected columns: files of 1..MaxFrames
\* lines, a file one column long, no file, and (for six columns) two frames
\* of the atoms (0,0,0) and (0,0,4).
ComFiles(cols) ==
    {Trajectory(r, cols, pq[1], pq[2]) :
        r \in 1..MaxFrames, pq \in {<<0, 0>>, <<1, 0>>, <<1, 1>>, <<2, 1>>}}
    \cup {Trajectory(2, cols + 1, 1, 1), NoFile}
    \cup (IF cols = 6
          THEN {TextFile(<<(<<0, 0, 0, 0, 0, 4000>>), (<<0, 0, 0, 0, 0, 4000>>)>>)}
          ELSE {})

InitCom ==
    \E mol \in ComMolecules :
    \E file \in ComFiles(mol[1] * mol[2] * 3) :
        /\ fn = "_compute_com_single_file"
        /\ args = [prtcl_num |-> mol[1], prtcl_atoms |-> mol[2],
                   masses |-> mol[3], total_mass |-> SumSeq(mol[3]),
                   baseDir |-> BaseDir, output_pattern |-> DefaultPattern,
                   common_term |-> CommonTerm]
        /\ files = (0 :> file)
        /\ xsc = NoXsc
        /\ cpu_count = 1
        /\ results = [success |-> 0, failed |-> <<>>]
        /\ box_size = <<>>
        /\ pc = "load"
        /\ InitCommon

\* np.loadtxt, the column check and the reshape.
ComLoadFile ==
    /\ pc = "load"
    /\ fn = "_compute_com_single_file"
    /\ LET ld == ComLoad(files[0], args.prtcl_num, args.prtcl_atoms)
       IN  IF ld.ok
           THEN /\ data' = ld.arr
                /\ pc' = "reduce"
                /\ UNCHANGED raised
           ELSE /\ pc' = "raised"
                /\ raised' = "RuntimeError"
                /\ UNCHANGED data
    /\ UNCHANGED <<fn, args, files, total_frames, summary, box_size,
                   out_files, coords, unwrapped, frame, centers_of_mass>>
    /\ dirs' = WorkerDirs(0)
    /\ UNCHANGED driver_vars

\* centers_of_mass = _compute_com_vectorized(data, masses, total_mass, ...)
ComReduce ==
    /\ pc = "reduce"
    /\ centers_of_mass' = compute_com_vectorized(data, args.masses,
                                                 args.total_mass,
                                                 args.prtcl_atoms)
    /\ pc' = "save"
    /\ UNCHANGED <<fn, args, files, total_frames, summary, dirs, box_size,
                   out_files, raised, coords, unwrapped, frame, data>>
    /\ UNCHANGED driver_vars

\* The centres of mass are written and the index is returned.
ComWrite ==
    /\ pc = "save"
    /\ out_files' = (0 :> ComSave(centers_of_mass))
    /\ pc' = "returned"
    /\ UNCHANGED <<fn, args, files, total_frames, summary, dirs, box_size,
                   raised, coords, unwrapped, frame, data, centers_of_mass>>
    /\ UNCHANGED driver_vars

NextCom == ComLoadFile \/ ComReduce \/ ComWrite

SpecCom == InitCom /\ [][NextCom]_vars

\* ------------------ expand_path_pattern and validate_path_pattern on their own
\* What the patterns are put together from: a letter, the `*`, the slash,
\* {i}, {i+1}, {i-1}, {i+12}, {i*2}, {i/2}, {i/0}, {i+01}, {j}, {index},
\* {ii}, {}, and a brace on its own.
PatternPieces ==
    {<<"a">>, <<"*">>, <<"/">>,
     <<"{", "i", "}">>,
     <<"{", "i", "+", "1", "}">>,
     <<"{", "i", "-", "1", "}">>,
     <<"{", "i", "+", "1", "2", "}">>,
     <<"{", "i", "*", "2", "}">>,
     <<"{", "i", "/", "2", "}">>,
     <<"{", "i", "/", "0", "}">>,
     <<"{", "i", "+", "0", "1", "}">>,
     <<"{", "j", "}">>,
     <<"{", "i", "n", "d", "e", "x", "}">>,
     <<"{", "i", "i", "}">>,
     <<"{", "}">>,
     <<"{">>, <<"}">>}

\* The pattern written as its pieces one after the other.
RECURSIVE Flatten(_)
Flatten(pieces) ==
    IF pieces = <<>> THEN <<>> ELSE Head(pieces) \o Flatten(Tail(pieces))

\* The patterns of MaxPieces pieces or fewer.
PiecewisePatterns ==
    UNION {[1..n -> PatternPieces] : n \in 0..MaxPieces}

\* common_param: None and the common term of the runs.
CommonParams == {NoCommonParam, CommonTerm}

\* file_index: None and the indices of range(MaxFiles).
FileIndices == {PyNone} \cup (0..(MaxFiles - 1))

InitPath ==
    \E pieces \in PiecewisePatterns :
    \E c \in CommonParams :
    \E i \in FileIndices :
    \E name \in {"expand_path_pattern", "validate_path_pattern"} :
        /\ fn = name
        /\ name = "validate_path_pattern" => (c = CommonTerm /\ i = PyNone)
        /\ args = [pieces |-> pieces, pattern |-> Flatten(pieces),
                   common_param |-> c, file_index |-> i]
        /\ files = <<>>
        /\ xsc = NoXsc
        /\ cpu_count = 1
        /\ results = <<>>
        /\ box_size = <<>>
        /\ pc = "call"
        /\ InitCommon

\* results holds what expand_path_pattern returns.
ExpandCall ==
    /\ pc = "call"
    /\ fn = "expand_path_pattern"
    /\ results' = expand_path_pattern(args.pattern, args.common_param,
                                      args.file_index)
    /\ pc' = "returned"
    /\ UNCHANGED <<fn, args, files, total_frames, summary, dirs, box_size,
                   out_files, raised>>
    /\ UNCHANGED worker_vars
    /\ UNCHANGED driver_vars_but_results

\* results holds is_valid of the pair validate_path_pattern returns.
ValidateCall ==
    /\ pc = "call"
    /\ fn = "validate_path_pattern"
    /\ results' = validate_path_pattern(args.pattern)
    /\ pc' = "returned"
    /\ UNCHANGED <<fn, args, files, total_frames, summary, dirs, box_size,
                   out_files, raised>>
    /\ UNCHANGED worker_vars
    /\ UNCHANGED driver_vars_but_results

NextPath == ExpandCall \/ ValidateCall

SpecPath == InitPath /\ [][NextPath]_vars

\* ------------------------------------------------------ dipole_functions
\* _process_single_dipole_file as far as its result record goes: both files
\* must exist; a one-line file is made two-dimensional again; every
\* stride-th line is kept; the COM data are reshaped to
\* (n_frames, num_particles, 3); dipoleM takes the first columns of the
\* coordinates and the first molecules of the COM data and reshapes both to
\* the frames of the coordinates; the vectors are reshaped to n_frames
\* lines.  Every exception is caught and gives success False.  The dipole
\* values are not computed here: `written` holds the shapes of the two
\* arrays saved.
process_single_dipole_file(coord_file, com_file, A, N, stride) ==
    LET failure == [success |-> FALSE, frames_processed |-> 0,
                    written |-> <<>>]
        c0 == np_loadtxt(coord_file, 0).arr
        m0 == np_loadtxt(com_file, 0).arr
        c1 == IF ndim(c0) = 1 THEN reshape(c0, <<1, size(c0)>>) ELSE c0
        m1 == IF ndim(m0) = 1 THEN reshape(m0, <<1, size(m0)>>) ELSE m0
        coord_data == IF stride > 1 THEN StrideRows(c1, stride) ELSE c1
        com_data   == IF stride > 1 THEN StrideRows(m1, stride) ELSE m1
        n_frames      == com_data.shape[1]
        num_particles == com_data.shape[2] \div 3
        rows      == coord_data.shape[1]
        columns   == IF coord_data.shape[2] < N * A * 3
                     THEN coord_data.shape[2] ELSE N * A * 3
        molecules == IF num_particles < N THEN num_particles ELSE N
    IN  IF coord_file = NoFile \/ com_file = NoFile THEN failure
        ELSE IF com_data.shape[2] # num_particles * 3 THEN failure
        ELSE IF columns # N * A * 3 THEN failure
        ELSE IF n_frames * molecules # rows * N THEN failure
        ELSE IF (rows * N * 3) % n_frames # 0 THEN failure
        ELSE [success |-> TRUE, frames_processed |-> n_frames,
              written |-> <<(<<n_frames, (rows * N * 3) \div n_frames>>),
                            (<<rows, N>>)>>]

\* The pairs of coordinate file and COM file of one index, for molecules of
\* two atoms: two frames; the longest file; no coordinate file; no COM file;
\* a coordinate file one column short.
DipoleInputs ==
    {[coord |-> Trajectory(2, 6, 1, 1), com |-> Trajectory(2, 3, 1, 1)],
     [coord |-> Trajectory(MaxFrames, 6, 1, 1),
      com |-> Trajectory(MaxFrames, 3, 1, 1)],
     [coord |-> NoFile, com |-> Trajectory(2, 3, 1, 1)],
     [coord |-> Trajectory(2, 6, 1, 1), com |-> NoFile],
     [coord |-> Trajectory(2, 5, 1, 1), com |-> Trajectory(2, 3, 1, 1)]}

\* <<num_dcds, dcd_indices>> (<<>> is None).
DipoleSelections == {<<n, <<>>>> : n \in 0..MaxFiles} \cup {<<2, <<1, 0>>>>}

InitDipole ==
    \E sel \in DipoleSelections :
    \E w \in {1, 2} :
    \E st \in {1, 2} :
    \E q \in {<<1, -1>>, <<1>>} :
        /\ fn = "dipole_functions"
        /\ args = [num_dcds |-> sel[1], dcd_indices |-> sel[2],
                   max_workers |-> w, stride |-> st, Charges |-> q,
                   atoms_per_particle |-> 2, num_particles |-> 1,
                   baseDir |-> BaseDir, output_pattern |-> ResultsPattern,
                   common_term |-> CommonTerm]
        /\ files \in [(IF sel[2] # <<>> THEN Range(sel[2])
                       ELSE 0..(sel[1] - 1)) -> DipoleInputs]
        /\ xsc = NoXsc
        /\ cpu_count = 1
        /\ results = <<>>
        /\ box_size = <<>>
        /\ pc = "call"
        /\ InitCommon

\* The worker on file index i; effective_molecules is num_particles, as
\* molecules_to_process is left at None.
DipoleWorker(i) ==
    [file_idx |-> i]
    @@ process_single_dipole_file(files[i].coord, files[i].com,
                                  args.atoms_per_particle, args.num_particles,
                                  args.stride)

\* os.path.join(baseDir, expand_path_pattern(output_pattern, common_term, i)),
\* the directory the worker makes and writes in when there is no
\* magnitudes_pattern.
DipoleOutputPath(i) ==
    os_path_join(args.baseDir,
                 expand_path_pattern(args.output_pattern, args.common_term, i))

\* dipole_functions up to its loops: the patterns, the charges, the output
\* directory, the index list.
DipoleCall ==
    /\ pc = "call"
    /\ fn = "dipole_functions"
    /\ IF \/ ~validate_path_pattern(args.output_pattern)
          \/ Len(args.Charges) # args.atoms_per_particle
       THEN /\ pc' = "raised"
            /\ raised' = "ValueError"
            /\ UNCHANGED <<dirs, dcd_list>>
       ELSE /\ dirs' = dirs \cup {DipoleOutputPath(PyNone)}
            /\ dcd_list' = IF args.dcd_indices # <<>> THEN args.dcd_indices
                           ELSE range(args.num_dcds)
            /\ pc' = IF args.max_workers > 1 THEN "pool" ELSE "sequential"
            /\ UNCHANGED raised
    /\ UNCHANGED <<fn, args, files, total_frames, summary, xsc, cpu_count,
                   max_workers, box_size, f, done, collected, futures,
                   successful_files, accumulators, results, stats, stat_files,
                   out_files>>
    /\ UNCHANGED worker_vars

\* One pass of `for i in actual_dcd_list` of the sequential branch: the
\* result is appended and, when it is a success, counted.
DipoleSequentialFile ==
    /\ pc = "sequential"
    /\ fn = "dipole_functions"
    /\ f < Len(dcd_list)
    /\ LET i == dcd_list[f + 1]
           result == DipoleWorker(i)
       IN  /\ results' = Append(results, result)
           /\ successful_files' =
                 successful_files + (IF result.success THEN 1 ELSE 0)
           /\ total_frames' = total_frames + result.frames_processed
           /\ out_files' = IF result.success
                           THEN (i :> result.written) @@ out_files
                           ELSE out_files
           /\ dirs' = IF result.success THEN dirs \cup {DipoleOutputPath(i)}
                      ELSE dirs
    /\ f' = f + 1
    /\ UNCHANGED <<fn, args, files, summary, xsc, cpu_count, pc, dcd_list,
                   max_workers, box_size, done, collected, futures,
                   accumulators, stats, stat_files, raised>>
    /\ UNCHANGED worker_vars

\* A pool process runs the task submitted for position j of the list to its
\* end.
DipoleTaskFinishes(j) ==
    /\ pc = "pool"
    /\ fn = "dipole_functions"
    /\ j \in (1..Len(dcd_list)) \ done
    /\ LET i == dcd_list[j]
           result == DipoleWorker(i)
       IN  /\ futures' = (j :> result) @@ futures
           /\ out_files' = IF result.success
                           THEN (i :> result.written) @@ out_files
                           ELSE out_files
           /\ dirs' = IF result.success THEN dirs \cup {DipoleOutputPath(i)}
                      ELSE dirs
    /\ done' = done \cup {j}
    /\ UNCHANGED <<fn, args, files, total_frames, summary, xsc, cpu_count, pc,
                   dcd_list, max_workers, box_size, f, collected,
                   successful_files, accumulators, results, stats, stat_files,
                   raised>>
    /\ UNCHANGED worker_vars

\* One pass of `for future in as_completed(future_to_idx)`: the result is
\* appended.  The statements that count it stand after `raise e` in the
\* except clause and are never run.
DipoleCollectFuture(j) ==
    /\ pc = "pool"
    /\ fn = "dipole_functions"
    /\ j \in done \ collected
    /\ results' = Append(results, futures[j])
    /\ collected' = collected \cup {j}
    /\ UNCHANGED <<fn, args, files, dirs, total_frames, summary, xsc,
                   cpu_count, pc, dcd_list, max_workers, box_size, f, done,
                   futures, successful_files, accumulators, stats, stat_files,
                   out_files, raised>>
    /\ UNCHANGED worker_vars

\* 'Good' or 'Partial (s/n)'
data_quality(s, n) ==
    IF s = n THEN "Good"
    ELSE "Partial (" \o ToString(s) \o "/" \o ToString(n) \o ")"

\* After the loop the summary is made and returned.
DipoleSummary ==
    /\ fn = "dipole_functions"
    /\ \/ pc = "sequential" /\ f = Len(dcd_list)
       \/ pc = "pool" /\ collected = 1..Len(dcd_list)
    /\ summary' = [success |-> successful_files,
                   total |-> Len(dcd_list),
                   total_frames |-> total_frames,
                   data_quality |-> data_quality(successful_files,
                                                 Len(dcd_list))]
    /\ pc' = "returned"
    /\ UNCHANGED <<fn, args, files, dirs, total_frames, xsc, cpu_count,
                   dcd_list, max_workers, box_size, f, done, collected,
                   futures, successful_files, accumulators, results, stats,
                   stat_files, out_files, raised>>
    /\ UNCHANGED worker_vars

NextDipole ==
    \/ DipoleCall
    \/ DipoleSequentialFile
    \/ \E j \in 1..(MaxFiles + 1) : DipoleTaskFinishes(j)
    \/ \E j \in 1..(MaxFiles + 1) : DipoleCollectFuture(j)
    \/ DipoleSummary

SpecDipole == InitDipole /\ [][NextDipole]_vars

\* ================================================================ properties
\* ------------------------------------------------------- the entry points
PerFile == fn \in {"coms", "unwrapper"}
Statistics == fn \in {"a2_MSD", "alpha_xz"}

\* The file indices the call was asked to process, in order.
Asked == IF PerFile THEN dcd_list ELSE range(args.num_dcd)

\* The position (1-based) of `Asked` is through its pass of the file loop.
Handled(j) ==
    IF Statistics THEN j <= f
    ELSE IF max_workers = 1 THEN j <= f
    ELSE j \in collected

\* The file loop is over.
LoopOver ==
    /\ pc \in {"sequential", "pool", "loop", "returned", "raised"}
    /\ pc = "raised" => (IF PerFile THEN dcd_list # <<>> ELSE f > 0)
    /\ \A j \in 1..Len(Asked) : Handled(j)

Failed == Range(results.failed)
Skipped == IF Statistics THEN Range(results.skipped_files) ELSE {}

NoDuplicates(s) == \A a, b \in 1..Len(s) : a # b => s[a] # s[b]

\* C1: whenever coms, unwrapper, a2_MSD or alpha_xz returns normally after
\* being asked for N file indices, every index is in exactly one outcome
\* bucket and none is counted twice:
\* success + len(failed) + len(skipped_files) = N.
C1_BucketAccounting ==
    (pc = "returned" /\ (PerFile \/ Statistics)) =>
        /\ results.success + Len(results.failed)
              + (IF Statistics THEN Len(results.skipped_files) ELSE 0)
              = Len(Asked)
        /\ results.success >= 0
        /\ NoDuplicates(results.failed)
        /\ Statistics => NoDuplicates(results.skipped_files)
        /\ Failed \cap Skipped = {}
        /\ Failed \cup Skipped \subseteq Range(Asked)
        /\ PerFile => DOMAIN out_files = Range(Asked) \ Failed

\* A call has returned with each of its buckets filled.
C1_Witness ==
    /\ pc = "returned"
    /\ \/ /\ Statistics
          /\ results.success >= 1
          /\ results.failed # <<>>
          /\ results.skipped_files # <<>>
       \/ /\ PerFile
          /\ max_workers # 1
          /\ results.success >= 1
          /\ results.failed # <<>>

\* The column count coms or unwrapper expects of its input files.
ExpectedColumns ==
    IF fn = "coms" THEN args.prtcl_num * args.prtcl_atoms * 3
    ELSE args.num_atoms * 3

Mismatched(i) == files[i] # NoFile /\ files[i].cols # ExpectedColumns

FirstIndex == IF PerFile THEN DcdList[1] ELSE 0

\* C3 as stated: a missing input file for any index of the list, the first
\* included, is a per-file error: the index is recorded in failed, the
\* other indices are processed and the exception does not leave the call.
C3_MissingFileAnyIndex ==
    (PerFile \/ Statistics) =>
        /\ raised # "FileNotFoundError"
        /\ \A j \in 1..Len(Asked) :
              (Handled(j) /\ files[Asked[j]] = NoFile) => Asked[j] \in Failed

\* C3, amended: a missing input file for any index but the first (index 0
\* in a2_MSD and alpha_xz) is a per-file error: the index is recorded in
\* failed, the loop goes on to the remaining indices and the exception does
\* not leave the call.  A missing file of the first index makes the call
\* raise FileNotFoundError before any file is processed.
C3_MissingFileButFirst ==
    (PerFile \/ Statistics) =>
        /\ raised = "FileNotFoundError" =>
              /\ files[FirstIndex] = NoFile
              /\ pc = "raised"
              /\ f = 0 /\ done = {}
              /\ results.success = 0 /\ results.failed = <<>>
              /\ out_files = <<>> /\ stat_files = NoStats
        /\ pc \in {"sequential", "pool", "loop", "returned"} =>
              (Asked = <<>> \/ files[FirstIndex] # NoFile)
        /\ \A j \in 1..Len(Asked) :
              (Handled(j) /\ files[Asked[j]] = NoFile) =>
                  /\ Asked[j] # FirstIndex
                  /\ Asked[j] \in Failed
                  /\ pc = "returned" => \A k \in 1..Len(Asked) : Handled(k)

\* A call has returned in which a missing file came before a file that
\* succeeded: the first is in failed.
C3_Witness ==
    /\ PerFile \/ Statistics
    /\ pc = "returned"
    /\ \E j, k \in 1..Len(Asked) :
          /\ j < k
          /\ files[Asked[j]] = NoFile
          /\ Asked[j] \in Failed
          /\ Asked[k] \notin Failed \cup Skipped

\* C16: each file index's task writes one output file, and the tasks of two
\* distinct indices never write the same path (coms,
\* coms_memory_optimized, unwrapper).
C16_OnePathPerIndex ==
    fn \in {"coms", "coms_memory_optimized", "unwrapper"} =>
        \A i, j \in DOMAIN out_files :
            i # j => output_file(i) # output_file(j)

\* C22: if the box-vector file is missing, empty, or its last line has no
\* parsable number at token 1, 5 or 9, unwrapper raises ValueError for the
\* whole call before a worker runs: no coordinate file is read, no file is
\* written, no result record is returned.  (A call that gives neither
\* num_dcd nor dcd_indices has raised TypeError before the file is opened.)
C22_BadBoxFileIsFatal ==
    (fn = "unwrapper" /\ ~ReadXsc(xsc).ok) =>
        /\ pc \in {"call", "raised"}
        /\ pc = "raised" =>
               \/ raised = "ValueError"
               \/ /\ raised = "TypeError"
                  /\ args.num_dcd = PyNone /\ args.dcd_indices = <<>>
        /\ out_files = <<>>
        /\ dcd_list = <<>> /\ f = 0 /\ done = {} /\ futures = <<>>
        /\ results = [success |-> 0, failed |-> <<>>]

\* unwrapper has raised ValueError on a box file whose last line stops
\* before token 5, with files to process and the first of them in place.
C22_Witness ==
    /\ fn = "unwrapper"
    /\ xsc = XscFile(<<(<<Num(0), Num(4), Num(0)>>)>>)
    /\ pc = "raised"
    /\ raised = "ValueError"
    /\ args.num_dcd = 2
    /\ files[0] # NoFile

\* C23: when the mass list of coms is not prtcl_atoms long the call ends
\* with ValueError, whatever the files and the other arguments are, and
\* nothing has been done by then: no directory made, no file written, no
\* index list formed, no worker run, the result record untouched.
C23_MassLengthCheckedFirst ==
    (/\ fn = "coms"
     /\ Len(args.particl_mass) # args.prtcl_atoms
     /\ pc # "call")
        => /\ pc = "raised"
           /\ raised = "ValueError"
           /\ dirs = {}
           /\ out_files = <<>>
           /\ dcd_list = <<>>
           /\ f = 0
           /\ done = {}
           /\ results = [success |-> 0, failed |-> <<>>]

\* coms has raised over a mass list of one for molecules of two atoms, its
\* pattern in order and the file of its first index missing.
C23_Witness ==
    /\ fn = "coms"
    /\ pc = "raised"
    /\ raised = "ValueError"
    /\ args.particl_mass = <<1>>
    /\ args.prtcl_atoms = 2
    /\ validate_path_pattern(args.output_pattern)
    /\ args.num_dcd = 2
    /\ files[0] = NoFile
    /\ files[1] # NoFile

\* What a sequential run over the same index list leaves.
SequentialOutcome ==
    SequentialRun(dcd_list, [success |-> 0, failed |-> <<>>, out |-> <<>>])

\* C15: in parallel mode, whatever the order in which the pool completes
\* the tasks and the loop collects them, the success count and the set of
\* failed indices are those of a sequential run over the same index list
\* (and so are the files written); a task that raises changes the outcome
\* of no other task.
C15_OrderIndependent ==
    (PerFile /\ LoopOver) =>
        /\ results.success = SequentialOutcome.success
        /\ Failed = Range(SequentialOutcome.failed)
        /\ Len(results.failed) = Len(SequentialOutcome.failed)
        /\ out_files = SequentialOutcome.out
        /\ max_workers = 1 => results.failed = SequentialOutcome.failed

\* A parallel call has returned whose failed list is in another order than
\* that of the sequential run, next to a task that succeeded.
C15_Witness ==
    /\ PerFile
    /\ pc = "returned"
    /\ max_workers # 1
    /\ results.failed # SequentialOutcome.failed
    /\ results.success >= 1

\* The worker count in force once the call has got to its files.
WorkersInForce ==
    LET n    == Len(dcd_list)
        both == IF n < cpu_count THEN n ELSE cpu_count
    IN  IF args.max_workers # PyNone THEN args.max_workers
        ELSE IF fn = "coms" /\ n < 4 THEN 1
        ELSE both

\* The call is at or past the processing of its files.
AtFiles ==
    \/ pc \in {"sequential", "pool", "returned"}
    \/ pc = "raised" /\ dcd_list # <<>>

WorkDone ==
    /\ PerFile
    /\ pc \in {"returned", "raised"}
    /\ dcd_list # <<>>
    /\ IF max_workers = 1 THEN f = Len(dcd_list)
       ELSE collected = 1..Len(dcd_list)

\* C29: once every listed file has been processed coms and unwrapper return
\* the result record and do not raise, whatever num_dcd is: also when the
\* indices are given as a list and num_dcd is None or 0.
C29_ReturnsAfterWork ==
    WorkDone => (pc = "returned" /\ raised = "")

\* ------------------------------------------------- displacement statistics
\* The indices that are in neither failed nor skipped_files.
Successful == {i \in Range(Asked) : i \notin Failed \cup Skipped}

\* The squared displacement of molecule m in line t of file i from line 0
\* of the same file, read off the file.
SquaredDisplacement(i, t, m) ==
    SumSeq([k \in 1..3 |->
        (Cell(files[i], t, 3 * m + k - 1) - Cell(files[i], 0, 3 * m + k - 1))
        * (Cell(files[i], t, 3 * m + k - 1) - Cell(files[i], 0, 3 * m + k - 1))])

\* Its sum over the successful files.
EnsembleSum(t, m) ==
    SumSeq([j \in 1..args.num_dcd |->
               IF (j - 1) \in Successful THEN SquaredDisplacement(j - 1, t, m)
               ELSE 0])

\* C8: on return of a2_MSD, MSD(t) is the sum over the successful files
\* only of the squared displacement of frame t from frame 0 of the same
\* file, divided by the number of successful files and, when there are more
\* than two molecules, averaged over the molecules; failed and skipped
\* files enter neither the sum nor the divisor.  The MSD written is that
\* value to six decimals.
C8_EnsembleMSD ==
    (fn = "a2_MSD" /\ pc = "returned") =>
        LET S   == Cardinality(Successful)
            M   == args.partcl_num
            T   == stats.msd_avg.shape[1]
            msd == stats.msd_avg
        IN  /\ S >= 1
            /\ results.success = S
            /\ \A i \in Successful : files[i].rows = T
            /\ IF M > 2
               THEN /\ msd.shape = <<T>>
                    /\ stat_files.MSD.shape = <<T>>
                    /\ \A t \in 0..(T - 1) :
                          LET sum == SumSeq([m \in 1..M |-> EnsembleSum(t, m - 1)])
                              w   == stat_files.MSD.flat[t + 1]
                          IN  /\ msd.flat[t + 1].d > 0
                              /\ msd.flat[t + 1].n * (S * M)
                                    = sum * msd.flat[t + 1].d
                              /\ 2 * Abs(w * (S * M) - sum) <= S * M
               ELSE /\ msd.shape = <<T, M>>
                    /\ stat_files.MSD.shape = <<T, M>>
                    /\ \A t \in 0..(T - 1) : \A m \in 0..(M - 1) :
                          LET w == At2(stat_files.MSD, t, m)
                          IN  /\ At2(msd, t, m).d > 0
                              /\ At2(msd, t, m).n * S
                                    = EnsembleSum(t, m) * At2(msd, t, m).d
                              /\ 2 * Abs(w * S - EnsembleSum(t, m)) <= S

\* a2_MSD has returned from two successful files that moved differently,
\* a failed file between or beside them.
C8_Witness ==
    /\ fn = "a2_MSD"
    /\ pc = "returned"
    /\ Failed \cup Skipped # {}
    /\ \E i, j \in Successful :
          SquaredDisplacement(i, 1, 0) # SquaredDisplacement(j, 1, 0)

\* The number of time points of the statistics computed.
TimePoints ==
    IF fn = "a2_MSD" THEN stats.msd_avg.shape[1] ELSE stats.x2_avg.shape[1]

\* C9 as stated: every file with at least minFrames rows is included in the
\* ensemble (counted in success) after being cut to its first minFrames
\* rows, so that files of different lengths are averaged together and the
\* outputs have exactly minFrames time points.
C9_TruncatedToMinFrames ==
    (Statistics /\ pc = "returned") =>
        /\ \A i \in Range(Asked) :
              (/\ files[i] # NoFile
               /\ files[i].cols = 3 * args.partcl_num
               /\ files[i].rows >= args.numFrames) => i \in Successful
        /\ TimePoints = args.numFrames

\* The mean of d4 equals the square of the MSD at every point.
ZeroVariance ==
    \A x \in 1..size(stats.msd_avg) :
        RatEq(stats.msd4_avg.flat[x],
              RatMul(stats.msd_avg.flat[x], stats.msd_avg.flat[x]))

\* C10 as stated: if the mean of d4 equals the squared MSD everywhere, the
\* alpha2 written by a2_MSD is -0.4 at every time point.
C10_ConstantAlpha2 ==
    (fn = "a2_MSD" /\ pc = "returned" /\ ZeroVariance) =>
        \A x \in 1..size(stats.msd_avg) :
            stat_files.alpha2.flat[x] = -(2 * Micro) \div 5

\* C10, amended: if the mean of d4 equals the squared MSD everywhere, the
\* alpha2 written by a2_MSD is -0.4 at every point where MSD^2 reaches
\* 1e-12 and 0.0 where it does not; the latter is the case at t = 0, where
\* the MSD is zero.
C10_ConstantAlpha2WhereMoved ==
    (fn = "a2_MSD" /\ pc = "returned" /\ ZeroVariance) =>
        /\ stat_files.alpha2.shape = stats.msd_avg.shape
        /\ \A x \in 1..size(stats.msd_avg) :
              LET msd == stats.msd_avg.flat[x]
              IN  stat_files.alpha2.flat[x]
                    = (IF msd.n * msd.n >= epsilon * msd.d * msd.d
                       THEN -(2 * Micro) \div 5 ELSE 0)
        /\ \A x \in 1..(size(stats.msd_avg) \div stats.msd_avg.shape[1]) :
              /\ stats.msd_avg.flat[x].n = 0
              /\ stat_files.alpha2.flat[x] = 0

\* a2_MSD has returned from two files of the same motion and has written
\* -0.4 at a later time point.
C10_Witness ==
    /\ fn = "a2_MSD"
    /\ pc = "returned"
    /\ ZeroVariance
    /\ results.success >= 2
    /\ \E x \in 1..size(stats.msd_avg) :
          stat_files.alpha2.flat[x] = -(2 * Micro) \div 5

\* MSD^2 < 1e-12 at element x of the output.
SmallMSD(x) ==
    LET msd == stats.msd_avg.flat[x]
    IN  msd.n * msd.n < epsilon * msd.d * msd.d

\* C11: every alpha2 value written by a2_MSD is finite, and at every time
\* point where MSD(t)^2 < 1e-12 (where MSD(t) = 0 in particular) the value
\* is exactly 0.0, not NaN or inf.
C11_Alpha2FiniteAndGuarded ==
    (fn = "a2_MSD" /\ pc = "returned") =>
        /\ stat_files.alpha2.shape = stats.msd_avg.shape
        /\ \A x \in 1..size(stats.msd_avg) :
              /\ isfinite(stats.alpha2.flat[x])
              /\ SmallMSD(x) =>
                    /\ stats.alpha2.flat[x] = RatInt(0)
                    /\ stat_files.alpha2.flat[x] = 0

\* a2_MSD has returned with a time point whose MSD is not zero but whose
\* square is below 1e-12, next to a time point where the MSD is zero.
C11_Witness ==
    /\ fn = "a2_MSD"
    /\ pc = "returned"
    /\ \E x, y \in 1..size(stats.msd_avg) :
          /\ SmallMSD(x)
          /\ stats.msd_avg.flat[x].n # 0
          /\ stats.msd4_avg.flat[x].n # 0
          /\ stats.msd_avg.flat[y].n = 0
          /\ stat_files.alpha2.flat[x] = 0

\* File i exists and every line of it has the columns np.loadtxt is asked for.
Parses(i) == files[i] # NoFile /\ files[i].cols >= 3 * args.partcl_num

\* C12 as stated: in a2_MSD and alpha_xz a file that exists and parses but
\* has fewer than minFrames rows is recorded in skipped_files and never in
\* failed (and so is not counted in success).
C12_ShortFileSkipped ==
    Statistics =>
        \A j \in 1..Len(Asked) :
            (Handled(j) /\ Parses(Asked[j])
                        /\ files[Asked[j]].rows < args.numFrames) =>
                /\ Asked[j] \in Skipped
                /\ Asked[j] \notin Failed

\* The file loop of a2_MSD or alpha_xz is over and every index is in failed
\* or in skipped_files.
NothingSucceeded ==
    /\ Statistics
    /\ pc = "loop"
    /\ f = args.num_dcd
    /\ Successful = {}

\* C13: if no file is processed successfully, a2_MSD and alpha_xz raise
\* instead of returning a result record, and no MSD, alpha2 or
\* directional-correlation file is written: the step after such a loop is
\* the raise, a returned call has a successful file, and files are written
\* by returning calls only.
C13_NoSuccessRaises ==
    /\ [](Statistics =>
            /\ pc = "returned" => (Successful # {} /\ results.success >= 1)
            /\ stat_files # NoStats => pc = "returned"
            /\ pc = "raised" => (stat_files = NoStats /\ out_files = <<>>))
    /\ [][NothingSucceeded =>
            (pc' = "raised" /\ raised' = "RuntimeError"
                            /\ stat_files' = NoStats)]_vars

\* A call has raised after a loop that left one index in failed and
\* another in skipped_files.
C13_Witness ==
    /\ Statistics
    /\ pc = "raised"
    /\ raised = "RuntimeError"
    /\ f = args.num_dcd
    /\ Successful = {}
    /\ Failed \cap Range(Asked) # {}
    /\ Skipped # {}
    /\ stat_files = NoStats

NoOtherLength(j, i) ==
    \A k \in 1..(j - 1) :
        (Asked[k] \notin Failed \cup Skipped)
            => files[Asked[k]].rows = files[i].rows

GuardedQuotient(num, a, b) ==
    LET den == RatMul(a, b)
    IN  IF RatLess(RatAbs(den), RatInt(epsilon)) THEN RatInt(0)
        ELSE IF ~isfinite(FloatDiv(num, den)) THEN RatInt(0)
        ELSE FloatMinusOne(FloatDiv(num, den))

\* C28: at every time point alpha_xz, alpha_xy and alpha_yz are each 0.0
\* where the product of their own two averaged squared displacements is
\* below 1e-12 or the quotient is not finite, and the quotient less one
\* everywhere else, the points where the product is exactly 1e-12 included.
C28_GuardedQuotient ==
    (fn = "alpha_xz" /\ pc = "returned") =>
        \A x \in 1..size(stats.alpha_xz) :
            /\ stats.alpha_xz.flat[x] =
                  GuardedQuotient(stats.x2z2_avg.flat[x], stats.x2_avg.flat[x],
                                  stats.z2_avg.flat[x])
            /\ stats.alpha_xy.flat[x] =
                  GuardedQuotient(stats.x2y2_avg.flat[x], stats.x2_avg.flat[x],
                                  stats.y2_avg.flat[x])
            /\ stats.alpha_yz.flat[x] =
                  GuardedQuotient(stats.y2z2_avg.flat[x], stats.y2_avg.flat[x],
                                  stats.z2_avg.flat[x])

\* ----------------------------------------------------------- unwrapping
\* The frames of _unwrap_single_file that the loop has dealt with.
UnwrapRunning == fn = "_unwrap_single_file" /\ pc \in {"frames", "returned"}

\* The raw step of atom a along axis k (0-based) into frame fr, and the step
\* between the unwrapped positions.
RawStep(fr, a, k) == At3(coords, fr, a, k) - At3(coords, fr - 1, a, k)
UnwrappedStep(fr, a, k) == At3(unwrapped, fr, a, k) - At3(unwrapped, fr - 1, a, k)

\* C4: within one file, for every atom and axis, unwrapped[0] = wrapped[0]
\* and every later frame adds to the previous unwrapped position the raw
\* step, less the box length if the step exceeds half the box, plus the box
\* length if it is below minus half the box, unchanged otherwise; each axis
\* by itself and by at most one box length a step.  The file written holds
\* these positions.
C4_UnwrapRecurrence ==
    UnwrapRunning =>
        \A a \in 0..(coords.shape[2] - 1) : \A k \in 0..2 :
            /\ At3(unwrapped, 0, a, k) = At3(coords, 0, a, k)
            /\ \A fr \in 1..(frame - 1) :
                  LET raw == RawStep(fr, a, k)
                      L   == box_size[k + 1]
                      d   == IF 2 * raw > L THEN raw - L
                             ELSE IF 2 * raw < -L THEN raw + L
                             ELSE raw
                  IN  /\ UnwrappedStep(fr, a, k) = d
                      /\ UnwrappedStep(fr, a, k) - raw \in {-L, 0, L}
            /\ pc = "returned" =>
                  \A fr \in 0..(coords.shape[1] - 1) :
                      At2(out_files[0], fr, 3 * a + k)
                          = CoordUnit * At3(unwrapped, fr, a, k)

\* A file is written in which one step went forward over the boundary along
\* x, backward along y and stayed inside the box along z.
C4_Witness ==
    /\ UnwrapRunning
    /\ pc = "returned"
    /\ \E fr \in 1..(coords.shape[1] - 1) :
          /\ 2 * RawStep(fr, 0, 0) > box_size[1]
          /\ 2 * RawStep(fr, 0, 1) < -box_size[2]
          /\ RawStep(fr, 0, 2) # 0
          /\ 2 * Abs(RawStep(fr, 0, 2)) < box_size[3]
          /\ UnwrappedStep(fr, 0, 0) = RawStep(fr, 0, 0) - box_size[1]

\* The run on positions 4.0 and 9.0 along x in a box of length 10.
HalfBoxScenario ==
    /\ fn = "_unwrap_single_file"
    /\ box_size = <<10000, 10000, 10000>>
    /\ files[0] = TextFile(<<(<<4000, 0, 0>>), (<<9000, 0, 0>>)>>)
    /\ args.num_atoms = 1
    /\ args.interval = [start |-> PyNone, stop |-> PyNone]
    /\ pc = "returned"

\* C5 as stated: a raw step of exactly half the box length is corrected by
\* one box length, so that positions 4.0 and 9.0 in a box of length 10 are
\* written as 4.0 and -1.0.
C5_HalfStepCorrected ==
    /\ UnwrapRunning =>
          \A a \in 0..(coords.shape[2] - 1) : \A k \in 0..2 :
          \A fr \in 1..(frame - 1) :
              2 * RawStep(fr, a, k) = box_size[k + 1]
                  => UnwrappedStep(fr, a, k) = RawStep(fr, a, k) - box_size[k + 1]
    /\ HalfBoxScenario =>
          /\ At2(out_files[0], 0, 0) = 4 * Micro
          /\ At2(out_files[0], 1, 0) = -1 * Micro

\* C5, amended: a raw step of exactly half the box length, forward or
\* backward, is not corrected (the comparisons are strict), so that
\* positions 4.0 and 9.0 in a box of length 10 are written as 4.0 and 9.0.
C5_HalfStepKept ==
    /\ UnwrapRunning =>
          \A a \in 0..(coords.shape[2] - 1) : \A k \in 0..2 :
          \A fr \in 1..(frame - 1) :
              2 * Abs(RawStep(fr, a, k)) = box_size[k + 1]
                  => UnwrappedStep(fr, a, k) = RawStep(fr, a, k)
    /\ HalfBoxScenario =>
          /\ At2(out_files[0], 0, 0) = 4 * Micro
          /\ At2(out_files[0], 1, 0) = 9 * Micro

\* The run on positions 4.0 and 9.0 has written its file.
C5_Witness == HalfBoxScenario /\ out_files[0].shape = <<2, 3>>

\* The raw step into frame fr exceeds half the box in magnitude.
Jump(fr, a, k) == 2 * Abs(RawStep(fr, a, k)) > box_size[k + 1]

\* C18: if no step between consecutive wrapped frames exceeds half the box
\* length in magnitude, for any atom and axis, the unwrapped frames are the
\* wrapped frames, and so is the file written.
C18_NoJumpIdentity ==
    (/\ UnwrapRunning
     /\ \A fr \in 1..(frame - 1) : \A a \in 0..(coords.shape[2] - 1) :
            \A k \in 0..2 : ~Jump(fr, a, k))
        => /\ \A fr \in 0..(frame - 1) : \A a \in 0..(coords.shape[2] - 1) :
                 \A k \in 0..2 :
                     At3(unwrapped, fr, a, k) = At3(coords, fr, a, k)
           /\ pc = "returned" =>
                 \A fr \in 0..(coords.shape[1] - 1) :
                 \A c \in 0..(3 * coords.shape[2] - 1) :
                     At2(out_files[0], fr, c)
                         = CoordUnit * coords.flat[fr * 3 * coords.shape[2] + c + 1]

\* A file of three frames is written whose atom moves at every step, once
\* by exactly half the box, and never by more.
C18_Witness ==
    /\ UnwrapRunning
    /\ pc = "returned"
    /\ coords.shape[1] = 3
    /\ \A fr \in 1..2 : \A a \in 0..(coords.shape[2] - 1) : \A k \in 0..2 :
           ~Jump(fr, a, k)
    /\ RawStep(1, 0, 0) # 0
    /\ 2 * RawStep(2, 0, 0) = box_size[1]
    /\ At2(out_files[0], 2, 0) = CoordUnit * At3(coords, 2, 0, 0)

\* unwrapped - wrapped of atom a along axis k at frame fr.
Offset(fr, a, k) == At3(unwrapped, fr, a, k) - At3(coords, fr, a, k)

\* C19: unwrapped - wrapped is a whole multiple of the box length; it
\* changes by one box length at each frame whose raw step exceeds half the
\* box in magnitude and by nothing at every other frame.  After a single
\* jump the output is one box length off the wrapped trajectory from the
\* jump frame on.
C19_OffsetWholeBoxes ==
    UnwrapRunning =>
        \A a \in 0..(coords.shape[2] - 1) : \A k \in 0..2 :
            LET L == box_size[k + 1]
                jumps == {fr \in 1..(frame - 1) : Jump(fr, a, k)}
            IN  /\ \A fr \in 0..(frame - 1) : Offset(fr, a, k) % L = 0
                /\ \A fr \in 1..(frame - 1) :
                       Abs(Offset(fr, a, k) - Offset(fr - 1, a, k))
                           = IF Jump(fr, a, k) THEN L ELSE 0
                /\ Cardinality(jumps) = 1 =>
                       \A fr \in 0..(frame - 1) :
                           Abs(Offset(fr, a, k))
                               = IF \E j \in jumps : fr >= j THEN L ELSE 0

\* A file is written in which the atom crossed the boundary along x at
\* frame 1 and moved on inside the box at frame 2: both frames are one box
\* length below the wrapped ones.
C19_Witness ==
    /\ UnwrapRunning
    /\ pc = "returned"
    /\ coords.shape[1] = 3
    /\ Jump(1, 0, 0) /\ RawStep(1, 0, 0) > 0
    /\ ~Jump(2, 0, 0) /\ RawStep(2, 0, 0) # 0
    /\ Offset(1, 0, 0) = -box_size[1]
    /\ Offset(2, 0, 0) = -box_size[1]

\* The lines of the input file (0-based) that lie in the interval, every
\* step-th of them, in order.
SelectedLines(step) ==
    LET lo == SliceStart(args.interval, files[0].rows)
        hi == SliceStop(args.interval, files[0].rows)
        n  == IF hi > lo THEN (hi - lo + step - 1) \div step ELSE 0
    IN  [j \in 1..n |-> lo + (j - 1) * step]

\* The worker holds exactly the given lines of its input file as frames,
\* has seeded the recurrence with the first of them, and on return has
\* stepped up to the last and written one line for each.
FramesAre(lines) ==
    LET w == 3 * coords.shape[2]
    IN  /\ coords.shape[1] = Len(lines)
        /\ \A fr \in 0..(Len(lines) - 1) : \A c \in 0..(w - 1) :
               coords.flat[fr * w + c + 1] = Cell(files[0], lines[fr + 1], c)
        /\ \A c \in 0..(w - 1) :
               unwrapped.flat[c + 1] = Cell(files[0], lines[1], c)
        /\ pc = "returned" =>
               /\ frame = Len(lines)
               /\ out_files[0].shape = <<Len(lines), w>>

ChunkedRunning ==
    fn = "_unwrap_single_file (chunked)" /\ pc \in {"chunks", "returned"}

\* The frame-by-frame recurrence run on the frames the chunked worker holds.
Recurrence ==
    UnwrapFrames(coords, UnwrapSeed(coords), 1, box_size, HalfBox(box_size))

\* C20: for every chunk size of 1 or more and every input, the chunked
\* unwrap leaves, chunk after chunk, the frames that the frame-by-frame
\* recurrence gives on the same wrapped frames, and writes the same file.
C20_ChunkedEqualsRecurrence ==
    ChunkedRunning =>
        /\ \A x \in 1..size(unwrapped) :
               (x - 1) \div (3 * coords.shape[2]) < frame
                   => unwrapped.flat[x] = Recurrence.flat[x]
        /\ pc = "returned" =>
               /\ unwrapped = Recurrence
               /\ out_files[0] = UnwrapSave(Recurrence)

\* A file of five or more frames is written in chunks of two, with a jump
\* inside the first chunk and a jump at the first step of the second.
C20_Witness ==
    /\ ChunkedRunning
    /\ pc = "returned"
    /\ args.chunk_size = 2
    /\ coords.shape[1] >= 5
    /\ 2 * Abs(At3(coords, 2, 0, 0) - At3(coords, 1, 0, 0)) > box_size[1]
    /\ 2 * Abs(At3(coords, 3, 0, 0) - At3(coords, 2, 0, 0)) > box_size[1]
    /\ At3(unwrapped, 4, 0, 0) # At3(coords, 4, 0, 0)

\* -------------------------------------------------------- centre of mass
ComRunning == fn = "_compute_com_single_file"

\* The sum, over the atoms of molecule j in column order, of mass times
\* coordinate along axis k in line i of the input file.
MassWeightedSum(i, j, k) ==
    SumSeq([a \in 1..args.prtcl_atoms |->
               args.masses[a]
               * Cell(files[0], i, (j * args.prtcl_atoms + (a - 1)) * 3 + k)])

\* C6: for every frame, molecule and axis the centre of mass computed is
\* the mass-weighted sum of the molecule's atoms divided by the sum of the
\* mass vector, and the number written for it is that quotient to the six
\* decimals of the file; masses [1, 3] and atoms (0,0,0), (0,0,4) give
\* (0,0,3).
C6_CentreOfMass ==
    (ComRunning /\ pc \in {"save", "returned"}) =>
        \A i \in 0..(files[0].rows - 1) :
        \A j \in 0..(args.prtcl_num - 1) :
        \A k \in 0..2 :
            LET com   == At3(centers_of_mass, i, j, k)
                total == SumSeq(args.masses)
                sum   == MassWeightedSum(i, j, k)
            IN  /\ com.d > 0
                /\ com.n * total = sum * com.d
                /\ pc = "returned" =>
                      LET w == At2(out_files[0], i, 3 * j + k)
                      IN  /\ 2 * Abs(w * total - sum * CoordUnit) <= total
                          /\ (args.masses = <<1, 3>> /\ files[0].text # <<>>)
                                => w = (IF k = 2 THEN 3 * Micro ELSE 0)

\* A file of several molecules is written in which a centre of mass is not
\* a multiple of 1e-6.
C6_Witness ==
    /\ ComRunning
    /\ pc = "returned"
    /\ args.prtcl_num > 1
    /\ \E x \in 1..size(centers_of_mass) :
          (centers_of_mass.flat[x].n * CoordUnit) % centers_of_mass.flat[x].d # 0

\* C7 as stated: every input file with F >= 1 lines (F = 1 included) and
\* exactly moleculeCount*atomsPerMolecule*3 columns is processed without a
\* raise, and what is written has F lines of 3*moleculeCount columns.
C7_EveryFrameCount ==
    (/\ ComRunning
     /\ files[0].rows >= 1
     /\ files[0].cols = args.prtcl_num * args.prtcl_atoms * 3) =>
        /\ pc # "raised"
        /\ pc = "returned" =>
              out_files[0].shape = <<files[0].rows, 3 * args.prtcl_num>>

\* ---------------------------------------------------------- path patterns
\* expand_path_pattern has returned with a common parameter given.
Expanded ==
    /\ fn = "expand_path_pattern"
    /\ pc = "returned"
    /\ args.common_param # NoCommonParam

\* Digits that are a decimal literal: no leading zero before another digit.
IsLiteral(ds) ==
    /\ ds # <<>>
    /\ \A n \in 1..Len(ds) : IsDigit(ds[n])
    /\ ds[1] = "0" => \A n \in 1..Len(ds) : ds[n] = "0"

\* The piece is a brace group: "{", its content, "}".
IsGroup(piece) ==
    /\ Len(piece) >= 2
    /\ piece[1] = "{"
    /\ piece[Len(piece)] = "}"

Content(piece) == SubSeq(piece, 2, Len(piece) - 1)

\* The content is i, i+k or i-k, k a decimal literal.
IsIndexContent(c) ==
    \/ c = <<"i">>
    \/ /\ Len(c) >= 3
       /\ c[1] = "i"
       /\ c[2] \in {"+", "-"}
       /\ IsLiteral(SubSeq(c, 3, Len(c)))

\* The value of the content i, i+k or i-k at file index i.
IndexValue(c, i) ==
    IF c = <<"i">> THEN i
    ELSE IF c[2] = "+" THEN i + int_literal(SubSeq(c, 3, Len(c)))
    ELSE i - int_literal(SubSeq(c, 3, Len(c)))

\* The content is i/k, k a decimal literal other than zero.
IsQuotientContent(c) ==
    /\ Len(c) >= 3
    /\ c[1] = "i"
    /\ c[2] = "/"
    /\ IsLiteral(SubSeq(c, 3, Len(c)))
    /\ int_literal(SubSeq(c, 3, Len(c))) # 0

\* What the sentence of C24 makes of one piece: a placeholder becomes its
\* value when a file index is given, and everything else stays but for its
\* `*`.
Substituted(piece, common, i) ==
    IF i # PyNone /\ IsGroup(piece) /\ IsIndexContent(Content(piece))
    THEN str_int(IndexValue(Content(piece), i))
    ELSE replace_star(piece, common)

\* The same with {i/k}, k not zero, becoming the float i / k.
SubstitutedOrDivided(piece, common, i) ==
    IF i # PyNone /\ IsGroup(piece) /\ IsQuotientContent(Content(piece))
    THEN str_float(i, int_literal(SubSeq(piece, 4, Len(piece) - 1)))
    ELSE Substituted(piece, common, i)

\* C24 as stated: the result is the pattern with every `*` replaced by the
\* common term, every {i}, {i+k}, {i-k} replaced by the decimal value and
\* nothing else changed; without a file index the placeholders stay.
C24_OnlyStarAndIndexReplaced ==
    Expanded =>
        results = Flatten([n \in 1..Len(args.pieces) |->
                              Substituted(args.pieces[n], args.common_param,
                                          args.file_index)])

\* C24, amended: in a pattern without an unclosed "{" the result is the
\* pattern with every `*` replaced by the common term, every {i}, {i+k},
\* {i-k} replaced by the decimal value, every {i/k} with k not zero replaced
\* by the float quotient, and nothing else changed; without a file index
\* the brace groups stay.
C24_StarIndexAndQuotientReplaced ==
    (Expanded /\ \A n \in 1..Len(args.pieces) : args.pieces[n] # <<"{">>) =>
        results = Flatten([n \in 1..Len(args.pieces) |->
                              SubstitutedOrDivided(args.pieces[n],
                                                   args.common_param,
                                                   args.file_index)])

\* "*{i+12}" with the common term 240 at file index 2 has come back as
\* "24014".
C24_Witness ==
    /\ Expanded
    /\ args.pattern = <<"*", "{", "i", "+", "1", "2", "}">>
    /\ args.common_param = CommonTerm
    /\ args.file_index = 2
    /\ results = <<"2", "4", "0", "1", "4">>

\* expand_path_pattern has been called and is past the call.
ExpandDone == fn = "expand_path_pattern" /\ pc # "call"

\* s holds t as a run of consecutive characters.
Contains(s, t) ==
    \E n \in 0..(Len(s) - Len(t)) : SubSeq(s, n + 1, n + Len(t)) = t

\* The piece as result.replace('*', ...) leaves it.
Starred(piece) ==
    IF args.common_param = NoCommonParam THEN piece
    ELSE replace_star(piece, args.common_param)

\* The content is i, or i followed by one of + - * / and digits.
IsArithmeticContent(c) ==
    \/ c = <<"i">>
    \/ /\ Len(c) >= 3
       /\ c[1] = "i"
       /\ c[2] \in {"+", "-", "*", "/"}
       /\ \A n \in 3..Len(c) : IsDigit(c[n])

\* The content cannot be evaluated: a number with a leading zero, or a
\* division by zero.
EvaluationFails(c) ==
    /\ Len(c) >= 3
    /\ \/ ~IsLiteral(SubSeq(c, 3, Len(c)))
       \/ c[2] = "/" /\ int_literal(SubSeq(c, 3, Len(c))) = 0

\* C25 as stated: expand_path_pattern never raises, and every brace group
\* whose content is not i, i+k or i-k is in the result as it was written.
C25_OtherGroupsAsWritten ==
    ExpandDone =>
        /\ pc = "returned"
        /\ raised = ""
        /\ \A n \in 1..Len(args.pieces) :
              (/\ IsGroup(args.pieces[n])
               /\ ~IsIndexContent(Content(args.pieces[n])))
                  => Contains(results, args.pieces[n])

\* C25, amended: expand_path_pattern never raises, and every brace group
\* whose content, once its `*` have been replaced, is not i or i followed
\* by one of + - * / and digits, or cannot be evaluated, is in the result
\* as the replacement of `*` left it.
C25_UnevaluatedGroupsKept ==
    ExpandDone =>
        /\ pc = "returned"
        /\ raised = ""
        /\ \A n \in 1..Len(args.pieces) :
              LET g == Starred(args.pieces[n])
              IN  (/\ IsGroup(g)
                   /\ \/ ~IsArithmeticContent(Content(g))
                      \/ EvaluationFails(Content(g)))
                      => Contains(results, g)

\* "{index}{i/0}" at file index 1 has come back as it was written.
C25_Witness ==
    /\ ExpandDone
    /\ args.pattern = <<"{", "i", "n", "d", "e", "x", "}",
                        "{", "i", "/", "0", "}">>
    /\ args.file_index = 1
    /\ results = args.pattern

\* validate_path_pattern has returned.
Validated == fn = "validate_path_pattern" /\ pc = "returned"

\* The pieces of the pattern that are index placeholders {i}, {i+k}, {i-k}.
IndexPlaceholders ==
    {n \in 1..Len(args.pieces) :
        IsGroup(args.pieces[n]) /\ IsIndexContent(Content(args.pieces[n]))}

\* C26: a pattern with more than one index placeholder, the same one twice
\* or two different ones, is reported as invalid.
C26_MultipleIndexInvalid ==
    (Validated /\ Cardinality(IndexPlaceholders) > 1) => results = FALSE

\* C27: a pattern with a brace group that is not i, i+k or i-k, {index},
\* {ii} and {} among them, is reported as invalid.
C27_NonIndexGroupInvalid ==
    (/\ Validated
     /\ \E n \in 1..Len(args.pieces) :
           /\ IsGroup(args.pieces[n])
           /\ ~IsIndexContent(Content(args.pieces[n])))
        => results = FALSE

\* ------------------------------------------------------ dipole_functions
\* The counts the sequential branch makes over `list`, from the counts c.
RECURSIVE DipoleSequentialRun(_, _)
DipoleSequentialRun(list, c) ==
    IF list = <<>> THEN c
    ELSE LET result == DipoleWorker(Head(list))
         IN  DipoleSequentialRun(Tail(list),
                 [success |-> c.success + (IF result.success THEN 1 ELSE 0),
                  total_frames |-> c.total_frames + result.frames_processed])

\* C30: the summary of dipole_functions has the success count, the
\* total_frames and the data_quality that the sequential branch gives on
\* the same files, with one worker and with more than one.
C30_SameSummaryInBothModes ==
    (fn = "dipole_functions" /\ pc = "returned") =>
        LET c == DipoleSequentialRun(dcd_list,
                                     [success |-> 0, total_frames |-> 0])
        IN  /\ summary.success = c.success
            /\ summary.total_frames = c.total_frames
            /\ summary.data_quality = data_quality(c.success, Len(dcd_list))

====
